---- MODULE Spec2Model ----
(***************************************************************************)
(* Model of pcap-transfer's long-running loops:                            *)
(*   - the message scheduler (TransferService::start_sender,               *)
(*     run_message_sender, stop_transfer) with its statistics,             *)
(*   - the capture loop (run_receiver_with_gui_stats),                     *)
(*   - the PCAP replayer (run_sender_with_gui_stats, Pcap branch) with     *)
(*     TimingController::wait_for_packet_time,                             *)
(*   - the locks these loops take around their suspension points,          *)
(* and of the field types: parsing of a field's type string, evaluation   *)
(* of its default expression and assembly of a packet.                     *)
(* Time is in milliseconds.  Option<T> is a sequence of length 0 or 1.     *)
(***************************************************************************)
EXTENDS Integers, Sequences, FiniteSets, TLC

VARIABLES
    \* ---- message scheduler ----
    messages,          \* ConfigManager::get_messages(): the configured list
    ui,                \* position of the controller: "idle", "started", "stopped"
    state,             \* the shared TransferState cell
    pc,                \* position of the spawned task
    runtime_messages,  \* enabled messages moved into the task
    packet_counters,   \* Vec<u64>, one per runtime message
    last_send_times,   \* Vec<Option<Instant>>
    now,               \* Instant::now() taken at the top of the tick
    idx,               \* position of the for loop (1-based)
    pending,           \* packet handed to send_to: <<>> or <<[index, len]>>
    stats,             \* MessageStatsManager::message_stats (name -> entry)
    clock,             \* wall clock of the scheduler run
    ticks,             \* number of 10 ms sleeps taken
    attempts,          \* history: per message, the attempts made
    failures,          \* history: number of failed attempts
    stopIssued,        \* history: stop_transfer was called
    exitBy,            \* history: why the loop was left
    \* ---- capture loop ----
    rUi,               \* position of the controller
    rState,            \* the shared TransferState cell of the capture
    rPc,               \* position of the capture task
    rClock,            \* wall clock of the capture run
    rWake,             \* deadline of the sleep(100 ms) of the current select!
    rStats,            \* TransferStats of the capture
    rFinalized,        \* number of calls of writer.finalize()
    rSeen,             \* history: the results of recv_from handled so far
    rStopAt,           \* history: when the state was set to Idle
    \* ---- PCAP replayer ----
    pUi,               \* position of the controller
    pState,            \* the shared TransferState cell of the replay
    pPc,               \* position of the replay task
    pClock,            \* wall clock of the replay run
    dataset,           \* capture timestamps of the dataset's packets
    pNext,             \* index of the next packet reader.read_packet() returns
    last_stop_check,   \* Instant of the last stop check
    first_packet_time, \* TimingController::first_packet_time
    real_start_time,   \* TimingController::real_start_time
    pWake,             \* deadline of the sleep_until in progress
    pStats,            \* TransferStats of the replay
    sendTimes,         \* history: when each packet was handed to send_to
    pStopAt,           \* history: when the state was set to Idle
    pLastObs,          \* history: when the state was last looked at
    pObsGap,           \* history: longest time between two looks
    pLeftBy,           \* history: why the loop was left
    \* ---- field types and packet assembly ----
    overflowChecks,    \* whether the build panics on arithmetic overflow
    fields,            \* MessageDefinition::fields of the message
    field_values,      \* MessageRuntimeState::field_values
    fPc,               \* "defined", "ready" or "panicked"
    gIndex,            \* packet_index of the last generate_packet
    gTotal,            \* total_packets of the last generate_packet
    gParts,            \* history: what to_bytes did for each field it was called on
    gPacket,           \* result of the last generate_packet, <<>> before
    \* ---- locks ----
    loopKind,          \* which loop the task runs
    lPc,               \* position of the task in the loop's program
    holder,            \* who holds the state lock and the statistics lock
    \* ---- DefaultExpr::evaluate called on its own ----
    eExpr,             \* the expression, Some(DefaultExpr)
    eType,             \* the data type it is evaluated against, Some(FieldDataType)
    eRow,              \* row_index of the call
    eOut,              \* the result of the call, <<>> before
    \* ---- TransferService: the tasks of successive start_sender calls ----
    network,           \* SenderConfig: network_type and the family of the address
    tasks,             \* the spawned tasks: position, state cell, socket, packets
    sender_shared_state, \* the cell the controller holds, Some(index of a task)
    message_stats,     \* the shared MessageStatsManager
    starts             \* number of start_sender calls

schedVars == <<messages, ui, state, pc, runtime_messages, packet_counters,
               last_send_times, now, idx, pending, stats, clock, ticks,
               attempts, failures, stopIssued, exitBy>>

recvVars == <<rUi, rState, rPc, rClock, rWake, rStats, rFinalized, rSeen, rStopAt>>

replayVars == <<pUi, pState, pPc, pClock, dataset, pNext, last_stop_check,
                first_packet_time, real_start_time, pWake, pStats, sendTimes,
                pStopAt, pLastObs, pObsGap, pLeftBy>>

fieldVars == <<overflowChecks, fields, field_values, fPc, gIndex, gTotal,
               gParts, gPacket>>

lockVars == <<loopKind, lPc, holder>>

evalVars == <<eExpr, eType, eRow, eOut>>

svcVars == <<network, tasks, sender_shared_state, message_stats, starts>>

vars == <<schedVars, recvVars, replayVars, fieldVars, lockVars, evalVars, svcVars>>

----------------------------------------------------------------------------
\* Bounds of the model

MaxMsgs == 2
MaxCount == 2
MaxUnlimited == 2
MaxErrors == 1

\* Program constants
TickMs == 10

PacketLens == {2}

\* The message definitions the configurations are built from: message "a"
\* is due every second tick, message "b" on every tick (its interval is
\* shorter than the tick).  A disabled message is removed before the task
\* starts, so one disabled form is enough.
MessageDefinition ==
    [name : {"a"}, interval : {20}, enabled : {TRUE},
     packet_count : 0..MaxCount, len : PacketLens]
    \cup
    [name : {"b"}, interval : {5}, enabled : {TRUE},
     packet_count : 0..MaxCount, len : PacketLens]
    \cup
    {[name |-> "a", interval |-> 20, enabled |-> FALSE, packet_count |-> 0, len |-> 2]}

Msg(n, iv, c) ==
    [name |-> n, interval |-> iv, enabled |-> TRUE, packet_count |-> c, len |-> 2]

\* Integration scenario: intervals 100 ms and 250 ms, packet counts 5 and 2
ExampleI2 == <<Msg("a", 100, 5), Msg("b", 250, 2)>>

\* An interval below the tick length
FineInterval == <<Msg("a", 1, 12)>>

SeqsUpTo(S, n) == UNION {[1..k -> S] : k \in 0..n}

Configs == SeqsUpTo(MessageDefinition, MaxMsgs) \cup {ExampleI2, FineInterval}

----------------------------------------------------------------------------
\* Helpers

None == <<>>
Some(x) == <<x>>

RECURSIVE SumSeq(_)
SumSeq(s) == IF s = <<>> THEN 0 ELSE Head(s) + SumSeq(Tail(s))

RECURSIVE MaxSeq(_)
MaxSeq(s) == IF s = <<>> THEN 0
             ELSE LET m == MaxSeq(Tail(s)) IN IF Head(s) > m THEN Head(s) ELSE m

\* a variant that keeps the enabled messages in the opposite order
EnabledMessagesReversed(ms) ==
    LET kept == SelectSeq(ms, LAMBDA m : m.enabled)
    IN [i \in 1..Len(kept) |-> kept[Len(kept) + 1 - i]]

\* messages.into_iter().filter(|msg| msg.enabled).collect()
EnabledMessages(ms) == SelectSeq(ms, LAMBDA m : m.enabled)

\* MessageStats::new
NewMessageStats == [packets_sent |-> 0, bytes_sent |-> 0, errors |-> 0, ended |-> FALSE]

\* MessageStatsManager::ensure_message_stats
EnsureMessageStats(st, name) ==
    IF name \in DOMAIN st THEN st
    ELSE [n \in DOMAIN st \cup {name} |-> IF n = name THEN NewMessageStats ELSE st[n]]

\* MessageStatsManager::record_message_sent
RecordMessageSent(st, name, bytes) ==
    LET e == EnsureMessageStats(st, name) IN
    [e EXCEPT ![name].packets_sent = @ + 1, ![name].bytes_sent = @ + bytes]

\* mutant: the failure is also booked as a packet sent
RecordMessageErrorAsSent(st, name) ==
    LET e == EnsureMessageStats(st, name) IN
    [e EXCEPT ![name].errors = @ + 1, ![name].packets_sent = @ + 1]

\* MessageStatsManager::record_message_error
RecordMessageError(st, name) ==
    LET e == EnsureMessageStats(st, name) IN
    [e EXCEPT ![name].errors = @ + 1]

\* MessageStatsManager::finish_all
FinishAll(st) == [n \in DOMAIN st |-> [st[n] EXCEPT !.ended = TRUE]]

\* MessageStatsManager::reset
ResetStats == [n \in {} |-> NewMessageStats]

\* a variant whose interval test accepts one tick less than the interval
ShouldSendEarly(last, t, interval) ==
    IF last = None THEN TRUE ELSE t - last[1] >= interval - TickMs

\* should_send: the interval test on the tick-start timestamp
ShouldSend(last, t, interval) ==
    IF last = None THEN TRUE ELSE t - last[1] >= interval

\* mutant: the limit test is off by one
LimitReachedLate(m, counter) == m.packet_count > 0 /\ counter > m.packet_count

\* the packet-count limit test inside the for loop
LimitReached(m, counter) == m.packet_count > 0 /\ counter >= m.packet_count

\* mutant: a 1-based packet index
PacketIndexOneBased(counter) == counter + 1

\* the index handed to generate_packet
PacketIndex(counter) == counter

\* mutant: the emptiness test is missing, and all() of nothing is true
AllLimitedMessagesCompleteVacuous(ms, counters) ==
    \A i \in {j \in 1..Len(ms) : ms[j].packet_count > 0} :
        counters[i] >= ms[i].packet_count

\* all_limited_messages_complete
AllLimitedMessagesComplete(ms, counters) ==
    LET limited == {i \in 1..Len(ms) : ms[i].packet_count > 0} IN
    IF limited = {} THEN FALSE
    ELSE \A i \in limited : counters[i] >= ms[i].packet_count

\* mutant: the final state update is missing
FinishStateKept(s) == s

\* the final state update after the loop
FinishState(s) == IF s = "Running" THEN "Idle" ELSE s

----------------------------------------------------------------------------
\* Message scheduler

SchedInit ==
    /\ messages \in Configs
    /\ ui = "idle"
    /\ state = "Idle"
    /\ pc = "none"
    /\ runtime_messages = <<>>
    /\ packet_counters = <<>>
    /\ last_send_times = <<>>
    /\ now = 0
    /\ idx = 1
    /\ pending = None
    /\ stats = ResetStats
    /\ clock = 0
    /\ ticks = 0
    /\ attempts = <<>>
    /\ failures = 0
    /\ stopIssued = FALSE
    /\ exitBy = "none"

\* TransferService::start_sender
StartSender ==
    /\ UNCHANGED <<recvVars, replayVars, fieldVars, lockVars, evalVars, svcVars>>
    /\ ui = "idle"
    /\ ui' = "started"
    /\ stats' = ResetStats
    /\ state' = "Idle"
    /\ LET enabled_messages == EnabledMessages(messages) IN
         IF enabled_messages = <<>>
         THEN /\ pc' = "none"
              /\ UNCHANGED runtime_messages
         ELSE /\ pc' = "spawned"
              /\ runtime_messages' = enabled_messages
    /\ UNCHANGED <<messages, packet_counters, last_send_times, now, idx, pending,
                   clock, ticks, attempts, failures, stopIssued, exitBy>>

\* TransferService::stop_transfer
StopTransfer ==
    /\ UNCHANGED <<recvVars, replayVars, fieldVars, lockVars, evalVars, svcVars>>
    /\ ui = "started"
    /\ ui' = "stopped"
    /\ state' = "Idle"
    /\ stopIssued' = TRUE
    /\ UNCHANGED <<messages, pc, runtime_messages, packet_counters, last_send_times,
                   now, idx, pending, stats, clock, ticks, attempts,
                   failures, exitBy>>

\* the spawned task's first statement: *state = Running
TaskSetRunning ==
    /\ UNCHANGED <<recvVars, replayVars, fieldVars, lockVars, evalVars, svcVars>>
    /\ pc = "spawned"
    /\ state' = "Running"
    /\ pc' = "config"
    /\ UNCHANGED <<messages, ui, runtime_messages, packet_counters, last_send_times,
                   now, idx, pending, stats, clock, ticks, attempts,
                   failures, stopIssued, exitBy>>

\* SenderAppConfig::new succeeded or failed
TaskConfig(ok) ==
    /\ UNCHANGED <<recvVars, replayVars, fieldVars, lockVars, evalVars, svcVars>>
    /\ pc = "config"
    /\ IF ok THEN /\ pc' = "bind"
                  /\ UNCHANGED state
             ELSE /\ pc' = "failed"
                  /\ state' = "Error"
    /\ UNCHANGED <<messages, ui, runtime_messages, packet_counters, last_send_times,
                   now, idx, pending, stats, clock, ticks, attempts,
                   failures, stopIssued, exitBy>>

\* UdpSocket::bind, then the runtime vectors
TaskBind(ok) ==
    /\ UNCHANGED <<recvVars, replayVars, fieldVars, lockVars, evalVars, svcVars>>
    /\ pc = "bind"
    /\ IF ok THEN /\ pc' = "poll"
                  /\ packet_counters' = [i \in 1..Len(runtime_messages) |-> 0]
                  /\ last_send_times' = [i \in 1..Len(runtime_messages) |-> None]
                  /\ attempts' = [i \in 1..Len(runtime_messages) |-> <<>>]
                  /\ UNCHANGED state
             ELSE /\ pc' = "failed"
                  /\ state' = "Error"
                  /\ UNCHANGED <<packet_counters, last_send_times, attempts>>
    /\ UNCHANGED <<messages, ui, runtime_messages, now, idx, pending, stats, clock,
                   ticks, failures, stopIssued, exitBy>>

\* top of the loop: the stop check, now, and the auto-stop check
TickStart ==
    /\ UNCHANGED <<recvVars, replayVars, fieldVars, lockVars, evalVars, svcVars>>
    /\ pc = "poll"
    /\ IF state \in {"Idle", "Error"}
       THEN /\ pc' = "finish"
            /\ exitBy' = "stop"
            /\ UNCHANGED <<now, idx>>
       ELSE /\ now' = clock
            /\ IF AllLimitedMessagesComplete(runtime_messages, packet_counters)
               THEN /\ pc' = "finish"
                    /\ exitBy' = "auto"
                    /\ UNCHANGED idx
               ELSE /\ pc' = "msg"
                    /\ idx' = 1
                    /\ UNCHANGED exitBy
    /\ UNCHANGED <<messages, ui, state, runtime_messages, packet_counters,
                   last_send_times, pending, stats, clock, ticks,
                   attempts, failures, stopIssued>>

Due(i) ==
    /\ ShouldSend(last_send_times[i], now, runtime_messages[i].interval)
    /\ ~LimitReached(runtime_messages[i], packet_counters[i])

\* a message that is not due, or that reached its limit, is passed over
MsgSkip ==
    /\ UNCHANGED <<recvVars, replayVars, fieldVars, lockVars, evalVars, svcVars>>
    /\ pc = "msg"
    /\ idx <= Len(runtime_messages)
    /\ ~Due(idx)
    /\ idx' = idx + 1
    /\ UNCHANGED <<messages, ui, state, pc, runtime_messages, packet_counters,
                   last_send_times, now, pending, stats, clock, ticks,
                   attempts, failures, stopIssued, exitBy>>

\* generate_packet returned Ok: the task suspends in send_to
MsgGenerateOk ==
    /\ UNCHANGED <<recvVars, replayVars, fieldVars, lockVars, evalVars, svcVars>>
    /\ pc = "msg"
    /\ idx <= Len(runtime_messages)
    /\ Due(idx)
    /\ pending' = Some([index |-> PacketIndex(packet_counters[idx]),
                        len |-> runtime_messages[idx].len])
    /\ pc' = "send"
    /\ UNCHANGED <<messages, ui, state, runtime_messages, packet_counters,
                   last_send_times, now, idx, stats, clock, ticks,
                   attempts, failures, stopIssued, exitBy>>

\* generate_packet returned Err
MsgGenerateErr ==
    /\ UNCHANGED <<recvVars, replayVars, fieldVars, lockVars, evalVars, svcVars>>
    /\ pc = "msg"
    /\ idx <= Len(runtime_messages)
    /\ Due(idx)
    /\ failures < MaxErrors
    /\ stats' = RecordMessageError(stats, runtime_messages[idx].name)
    /\ attempts' = [attempts EXCEPT ![idx] =
           Append(@, [index |-> PacketIndex(packet_counters[idx]),
                      result |-> "gen_err", tick |-> ticks, at |-> now])]
    /\ failures' = failures + 1
    /\ idx' = idx + 1
    /\ UNCHANGED <<messages, ui, state, pc, runtime_messages, packet_counters,
                   last_send_times, now, pending, clock, ticks,
                   stopIssued, exitBy>>

\* send_to returned Ok
SendOk ==
    /\ UNCHANGED <<recvVars, replayVars, fieldVars, lockVars, evalVars, svcVars>>
    /\ pc = "send"
    /\ packet_counters' = [packet_counters EXCEPT ![idx] = @ + 1]
    /\ last_send_times' = [last_send_times EXCEPT ![idx] = Some(now)]
    /\ stats' = RecordMessageSent(stats, runtime_messages[idx].name, pending[1].len)
    /\ attempts' = [attempts EXCEPT ![idx] =
           Append(@, [index |-> pending[1].index, result |-> "sent",
                      tick |-> ticks, at |-> now])]
    /\ pending' = None
    /\ idx' = idx + 1
    /\ pc' = "msg"
    /\ UNCHANGED <<messages, ui, state, runtime_messages, now, clock, ticks, failures, stopIssued, exitBy>>

\* send_to returned Err
SendErr ==
    /\ UNCHANGED <<recvVars, replayVars, fieldVars, lockVars, evalVars, svcVars>>
    /\ pc = "send"
    /\ failures < MaxErrors
    /\ stats' = RecordMessageError(stats, runtime_messages[idx].name)
    /\ attempts' = [attempts EXCEPT ![idx] =
           Append(@, [index |-> pending[1].index, result |-> "send_err",
                      tick |-> ticks, at |-> now])]
    /\ failures' = failures + 1
    /\ pending' = None
    /\ idx' = idx + 1
    /\ pc' = "msg"
    /\ UNCHANGED <<messages, ui, state, runtime_messages, packet_counters,
                   last_send_times, now, clock, ticks, stopIssued, exitBy>>

\* end of the for loop: tokio::time::sleep(10 ms)
Sleep ==
    /\ UNCHANGED <<recvVars, replayVars, fieldVars, lockVars, evalVars, svcVars>>
    /\ pc = "msg"
    /\ idx > Len(runtime_messages)
    /\ \A i \in 1..Len(runtime_messages) :
          runtime_messages[i].packet_count = 0 => packet_counters[i] < MaxUnlimited
    /\ clock' = clock + TickMs
    /\ ticks' = ticks + 1
    /\ pc' = "poll"
    /\ UNCHANGED <<messages, ui, state, runtime_messages, packet_counters,
                   last_send_times, now, idx, pending, stats, attempts, failures,
                   stopIssued, exitBy>>

\* after the loop: Running becomes Idle
Finish ==
    /\ UNCHANGED <<recvVars, replayVars, fieldVars, lockVars, evalVars, svcVars>>
    /\ pc = "finish"
    /\ state' = FinishState(state)
    /\ pc' = "finish_stats"
    /\ UNCHANGED <<messages, ui, runtime_messages, packet_counters, last_send_times,
                   now, idx, pending, stats, clock, ticks, attempts,
                   failures, stopIssued, exitBy>>

\* stats.finish_all() and return Ok(())
FinishStats ==
    /\ UNCHANGED <<recvVars, replayVars, fieldVars, lockVars, evalVars, svcVars>>
    /\ pc = "finish_stats"
    /\ stats' = FinishAll(stats)
    /\ pc' = "done"
    /\ UNCHANGED <<messages, ui, state, runtime_messages, packet_counters,
                   last_send_times, now, idx, pending, clock, ticks,
                   attempts, failures, stopIssued, exitBy>>

SchedNext ==
    \/ StartSender
    \/ StopTransfer
    \/ TaskSetRunning
    \/ \E ok \in BOOLEAN : TaskConfig(ok)
    \/ \E ok \in BOOLEAN : TaskBind(ok)
    \/ TickStart
    \/ MsgSkip
    \/ MsgGenerateOk
    \/ MsgGenerateErr
    \/ SendOk
    \/ SendErr
    \/ Sleep
    \/ Finish
    \/ FinishStats

----------------------------------------------------------------------------
\* TransferStats, shared by the capture loop and the replayer

\* TransferStats::new
NewTransferStats ==
    [packets_processed |-> 0, bytes_processed |-> 0, errors |-> 0, ended |-> FALSE]

\* TransferStats::update_with_timestamp
UpdateWithTimestamp(st, bytes) ==
    [st EXCEPT !.packets_processed = @ + 1, !.bytes_processed = @ + bytes]

\* TransferStats::add_error
AddError(st) == [st EXCEPT !.errors = @ + 1]

\* TransferStats::finish
FinishTransferStats(st) == [st EXCEPT !.ended = TRUE]

----------------------------------------------------------------------------
\* Capture loop (run_receiver_with_gui_stats)

\* the period of the stop check of the capture loop
PollMs == 100

\* bounds of the capture model
MaxRecvClock == 300
MaxRecvErrors == 1

\* time from the start of a select! to the next datagram or receive error
ArrivalGaps == {40, 60}
DatagramLens == {3, 5}
RecvOutcomes == {"written", "write_err", "packet_err", "recv_err"}

RecvInit ==
    /\ rUi = "idle"
    /\ rState = "Idle"
    /\ rPc = "none"
    /\ rClock = 0
    /\ rWake = 0
    /\ rStats = NewTransferStats
    /\ rFinalized = 0
    /\ rSeen = [written |-> 0, bytes |-> 0, failed |-> 0]
    /\ rStopAt = None

\* the controller creates the cell as Running and spawns the task
RecvStart ==
    /\ UNCHANGED <<schedVars, replayVars, fieldVars, lockVars, evalVars, svcVars>>
    /\ rUi = "idle"
    /\ rUi' = "started"
    /\ rState' = "Running"
    /\ rPc' = "setup"
    /\ UNCHANGED <<rClock, rWake, rStats, rFinalized, rStopAt, rSeen>>

\* the controller's stop_receiver: the cell becomes Idle
RecvStop ==
    /\ UNCHANGED <<schedVars, replayVars, fieldVars, lockVars, evalVars, svcVars>>
    /\ rUi = "started"
    /\ rUi' = "stopped"
    /\ rState' = "Idle"
    /\ rStopAt' = Some(rClock)
    /\ UNCHANGED <<rPc, rClock, rWake, rStats, rFinalized, rSeen>>

\* configuration, socket and writer; an Err is reported by the caller as Error
RecvSetup(ok) ==
    /\ UNCHANGED <<schedVars, replayVars, fieldVars, lockVars, evalVars, svcVars>>
    /\ rPc = "setup"
    /\ IF ok THEN /\ rPc' = "select"
                  /\ rStats' = NewTransferStats
                  /\ rWake' = rClock + PollMs
                  /\ UNCHANGED rState
             ELSE /\ rPc' = "failed"
                  /\ rState' = "Error"
                  /\ UNCHANGED <<rStats, rWake>>
    /\ UNCHANGED <<rUi, rClock, rFinalized, rStopAt, rSeen>>

\* a variant that also counts a datagram the writer refused
AfterDatagramCountsRefused(st, outcome, bytes) ==
    IF outcome \in {"written", "write_err"}
    THEN UpdateWithTimestamp(st, bytes) ELSE AddError(st)

\* the statistics after one result of recv_from has been handled
AfterDatagram(st, outcome, bytes) ==
    IF outcome = "written" THEN UpdateWithTimestamp(st, bytes) ELSE AddError(st)

\* select!: the recv_from branch completes first (either branch may be taken
\* when both are ready); the next iteration builds a new sleep(100 ms)
RecvDatagram(gap, outcome, bytes) ==
    /\ UNCHANGED <<schedVars, replayVars, fieldVars, lockVars, evalVars, svcVars>>
    /\ rPc = "select"
    /\ rClock + gap <= rWake
    /\ rClock + gap <= MaxRecvClock
    /\ outcome # "written" => rStats.errors < MaxRecvErrors
    /\ rClock' = rClock + gap
    /\ rStats' = AfterDatagram(rStats, outcome, bytes)
    /\ rWake' = rClock' + PollMs
    /\ rSeen' = IF outcome = "written"
                THEN [rSeen EXCEPT !.written = @ + 1, !.bytes = @ + bytes]
                ELSE [rSeen EXCEPT !.failed = @ + 1]
    /\ UNCHANGED <<rUi, rState, rPc, rFinalized, rStopAt>>

\* select!: the sleep(100 ms) branch completes first and looks at the state
RecvTick ==
    /\ UNCHANGED <<schedVars, replayVars, fieldVars, lockVars, evalVars, svcVars>>
    /\ rPc = "select"
    /\ rWake <= MaxRecvClock
    /\ rClock' = rWake
    /\ IF rState = "Idle"
       THEN /\ rPc' = "finalize"
            /\ UNCHANGED rWake
       ELSE /\ rWake' = rClock' + PollMs
            /\ UNCHANGED rPc
    /\ UNCHANGED <<rUi, rState, rStats, rFinalized, rStopAt, rSeen>>

\* writer.finalize()?
RecvFinalize(ok) ==
    /\ UNCHANGED <<schedVars, replayVars, fieldVars, lockVars, evalVars, svcVars>>
    /\ rPc = "finalize"
    /\ rFinalized' = rFinalized + 1
    /\ IF ok THEN /\ rPc' = "finish"
                  /\ UNCHANGED rState
             ELSE /\ rPc' = "failed"
                  /\ rState' = "Error"
    /\ UNCHANGED <<rUi, rClock, rWake, rStats, rStopAt, rSeen>>

\* stats.finish(), the state becomes Completed, Ok(())
RecvFinish ==
    /\ UNCHANGED <<schedVars, replayVars, fieldVars, lockVars, evalVars, svcVars>>
    /\ rPc = "finish"
    /\ rStats' = FinishTransferStats(rStats)
    /\ rState' = "Completed"
    /\ rPc' = "done"
    /\ UNCHANGED <<rUi, rClock, rWake, rFinalized, rStopAt, rSeen>>

RecvNext ==
    \/ RecvStart
    \/ RecvStop
    \/ \E ok \in BOOLEAN : RecvSetup(ok)
    \/ \E gap \in ArrivalGaps : \E outcome \in RecvOutcomes : \E bytes \in DatagramLens :
          RecvDatagram(gap, outcome, bytes)
    \/ RecvTick
    \/ \E ok \in BOOLEAN : RecvFinalize(ok)
    \/ RecvFinish

----------------------------------------------------------------------------
\* PCAP replayer (run_sender_with_gui_stats, Pcap branch) and TimingController

\* stop_check_interval
StopCheckMs == 100

\* TimingController::new: max_delay_threshold_ms
MaxDelayThresholdMs == 100

\* bounds of the replay model
MaxPackets == 3

Timestamps == {0, 50, 100, 150, 250}
PacketSizes == {3}

Datasets == SeqsUpTo(Timestamps, MaxPackets)

ReplayInitWith(d) ==
    /\ pUi = "idle"
    /\ pState = "Idle"
    /\ pPc = "none"
    /\ pClock = 0
    /\ dataset = d
    /\ pNext = 1
    /\ last_stop_check = 0
    /\ first_packet_time = None
    /\ real_start_time = None
    /\ pWake = 0
    /\ pStats = NewTransferStats
    /\ sendTimes = <<>>
    /\ pStopAt = None
    /\ pLastObs = 0
    /\ pObsGap = 0
    /\ pLeftBy = "none"

\* packet_time.signed_duration_since(first_time).to_std().unwrap_or_default()
PacketOffset(packet_time, first_time) ==
    IF packet_time - first_time < 0 THEN 0 ELSE packet_time - first_time

Min(a, b) == IF a < b THEN a ELSE b

\* actual_wait of wait_for_packet_time; 0 when the packet is not early
ActualWait(packet_time, first_time, real_start, t, threshold) ==
    LET target_time == real_start + PacketOffset(packet_time, first_time) IN
    IF target_time > t
    THEN LET wait_duration == target_time - t IN
         IF threshold > 0 THEN Min(wait_duration, threshold) ELSE wait_duration
    ELSE 0

\* the state the replayer leaves behind
StateAfterReplay(leftBy) == "Completed"

\* the controller creates the cell as Running and spawns the task
ReplayStart ==
    /\ UNCHANGED <<schedVars, recvVars, fieldVars, lockVars, evalVars, svcVars>>
    /\ pUi = "idle"
    /\ pUi' = "started"
    /\ pState' = "Running"
    /\ pPc' = "setup"
    /\ UNCHANGED <<pClock, dataset, pNext, last_stop_check, first_packet_time,
                   real_start_time, pWake, pStats, sendTimes, pStopAt, pLastObs,
                   pObsGap, pLeftBy>>

\* the controller's stop_sender: the cell becomes Idle
ReplayStop ==
    /\ UNCHANGED <<schedVars, recvVars, fieldVars, lockVars, evalVars, svcVars>>
    /\ pUi = "started"
    /\ pUi' = "stopped"
    /\ pState' = "Idle"
    /\ pStopAt' = Some(pClock)
    /\ UNCHANGED <<pPc, pClock, dataset, pNext, last_stop_check, first_packet_time,
                   real_start_time, pWake, pStats, sendTimes, pLastObs, pObsGap,
                   pLeftBy>>

\* configuration, socket, TimingController::new, statistics, last_stop_check, reader
ReplaySetup(ok) ==
    /\ UNCHANGED <<schedVars, recvVars, fieldVars, lockVars, evalVars, svcVars>>
    /\ pPc = "setup"
    /\ IF ok THEN /\ pPc' = "read"
                  /\ pStats' = NewTransferStats
                  /\ last_stop_check' = pClock
                  /\ pLastObs' = pClock
                  /\ UNCHANGED pState
             ELSE /\ pPc' = "failed"
                  /\ pState' = "Error"
                  /\ UNCHANGED <<pStats, last_stop_check, pLastObs>>
    /\ UNCHANGED <<pUi, pClock, dataset, pNext, first_packet_time, real_start_time,
                   pWake, sendTimes, pStopAt, pObsGap, pLeftBy>>

\* reader.read_packet() returned None: the loop ends
ReplayEof ==
    /\ UNCHANGED <<schedVars, recvVars, fieldVars, lockVars, evalVars, svcVars>>
    /\ pPc = "read"
    /\ pNext > Len(dataset)
    /\ pPc' = "finish"
    /\ pLeftBy' = "eof"
    /\ UNCHANGED <<pUi, pState, pClock, dataset, pNext, last_stop_check,
                   first_packet_time, real_start_time, pWake, pStats, sendTimes,
                   pStopAt, pLastObs, pObsGap>>

\* reader.read_packet() returned Err: `?` returns it, the caller reports Error
ReplayReadErr ==
    /\ UNCHANGED <<schedVars, recvVars, fieldVars, lockVars, evalVars, svcVars>>
    /\ pPc = "read"
    /\ pNext <= Len(dataset)
    /\ pPc' = "failed"
    /\ pState' = "Error"
    /\ UNCHANGED <<pUi, pClock, dataset, pNext, last_stop_check, first_packet_time,
                   real_start_time, pWake, pStats, sendTimes, pStopAt, pLastObs,
                   pObsGap, pLeftBy>>

\* the stop check is due
StopCheckDue == pClock - last_stop_check >= StopCheckMs

\* reader.read_packet() returned a packet, the stop check was due and saw Idle
ReplayBreak ==
    /\ UNCHANGED <<schedVars, recvVars, fieldVars, lockVars, evalVars, svcVars>>
    /\ pPc = "read"
    /\ pNext <= Len(dataset)
    /\ StopCheckDue
    /\ pState = "Idle"
    /\ pPc' = "finish"
    /\ pLeftBy' = "stop"
    /\ pLastObs' = pClock
    /\ pObsGap' = IF pClock - pLastObs > pObsGap THEN pClock - pLastObs ELSE pObsGap
    /\ UNCHANGED <<pUi, pState, pClock, dataset, pNext, last_stop_check,
                   first_packet_time, real_start_time, pWake, pStats, sendTimes,
                   pStopAt>>

\* reader.read_packet() returned a packet: the stop check when it is due, then
\* wait_for_packet_time up to its sleep_until
ReplayRead ==
    /\ UNCHANGED <<schedVars, recvVars, fieldVars, lockVars, evalVars, svcVars>>
    /\ pPc = "read"
    /\ pNext <= Len(dataset)
    /\ StopCheckDue => pState # "Idle"
    /\ IF StopCheckDue
       THEN /\ last_stop_check' = pClock
            /\ pLastObs' = pClock
            /\ pObsGap' = IF pClock - pLastObs > pObsGap THEN pClock - pLastObs
                          ELSE pObsGap
       ELSE UNCHANGED <<last_stop_check, pLastObs, pObsGap>>
    /\ IF first_packet_time = None
       THEN /\ first_packet_time' = Some(dataset[pNext])
            /\ real_start_time' = Some(pClock)
            /\ pPc' = "send"
            /\ UNCHANGED pWake
       ELSE LET actual_wait == ActualWait(dataset[pNext], first_packet_time[1],
                                          real_start_time[1], pClock,
                                          MaxDelayThresholdMs) IN
            /\ UNCHANGED <<first_packet_time, real_start_time>>
            /\ IF actual_wait > 0
               THEN /\ pPc' = "wait"
                    /\ pWake' = pClock + actual_wait
               ELSE /\ pPc' = "send"
                    /\ UNCHANGED pWake
    /\ UNCHANGED <<pUi, pState, pClock, dataset, pNext, pStats, sendTimes, pStopAt,
                   pLeftBy>>

\* sleep_until(now + actual_wait) returns
ReplayWake ==
    /\ UNCHANGED <<schedVars, recvVars, fieldVars, lockVars, evalVars, svcVars>>
    /\ pPc = "wait"
    /\ pClock' = pWake
    /\ pPc' = "send"
    /\ UNCHANGED <<pUi, pState, dataset, pNext, last_stop_check, first_packet_time,
                   real_start_time, pWake, pStats, sendTimes, pStopAt, pLastObs,
                   pObsGap, pLeftBy>>

\* socket.send_to and the statistics
ReplaySend(ok, bytes) ==
    /\ UNCHANGED <<schedVars, recvVars, fieldVars, lockVars, evalVars, svcVars>>
    /\ pPc = "send"
    /\ sendTimes' = Append(sendTimes, [at |-> pClock, ok |-> ok])
    /\ pStats' = IF ok THEN UpdateWithTimestamp(pStats, bytes) ELSE AddError(pStats)
    /\ pNext' = pNext + 1
    /\ pPc' = "read"
    /\ UNCHANGED <<pUi, pState, pClock, dataset, last_stop_check, first_packet_time,
                   real_start_time, pWake, pStopAt, pLastObs, pObsGap, pLeftBy>>

\* after the loop: stats.finish(), the state becomes Completed, Ok(())
ReplayFinish ==
    /\ UNCHANGED <<schedVars, recvVars, fieldVars, lockVars, evalVars, svcVars>>
    /\ pPc = "finish"
    /\ pStats' = FinishTransferStats(pStats)
    /\ pState' = StateAfterReplay(pLeftBy)
    /\ pPc' = "done"
    /\ UNCHANGED <<pUi, pClock, dataset, pNext, last_stop_check, first_packet_time,
                   real_start_time, pWake, sendTimes, pStopAt, pLastObs, pObsGap,
                   pLeftBy>>

ReplayNext ==
    \/ ReplayStart
    \/ ReplayStop
    \/ \E ok \in BOOLEAN : ReplaySetup(ok)
    \/ ReplayEof
    \/ ReplayReadErr
    \/ ReplayBreak
    \/ ReplayRead
    \/ ReplayWake
    \/ \E ok \in BOOLEAN : \E bytes \in PacketSizes : ReplaySend(ok, bytes)
    \/ ReplayFinish

----------------------------------------------------------------------------
\* Specifications

\* no message configured: the scheduler part stays as constructed
\* no message is being assembled
FieldIdle ==
    /\ overflowChecks = FALSE
    /\ fields = <<>>
    /\ field_values = <<>>
    /\ fPc = "defined"
    /\ gIndex = 0
    /\ gTotal = None
    /\ gParts = <<>>
    /\ gPacket = <<>>

\* no loop's locking is being followed
LockIdle ==
    /\ loopKind = "none"
    /\ lPc = 0
    /\ holder = [l \in {"state", "stats"} |-> "free"]

\* TransferService::new, no start_sender yet
ServiceIdle ==
    /\ network = [network_type |-> "Unicast", family |-> "V4"]
    /\ tasks = <<>>
    /\ sender_shared_state = None
    /\ message_stats = [packets_sent |-> 0, recorded_by |-> {}, finished_by |-> {}]
    /\ starts = 0

\* no expression is being evaluated on its own
EvalIdle ==
    /\ eExpr = None
    /\ eType = None
    /\ eRow = 0
    /\ eOut = None

SchedIdle == SchedInit /\ messages = <<>>

Init == SchedInit /\ RecvInit /\ ReplayInitWith(<<>>) /\ FieldIdle /\ LockIdle /\ EvalIdle /\ ServiceIdle
Next == SchedNext
Spec == Init /\ [][Next]_vars

RecvSpecInit == SchedIdle /\ RecvInit /\ ReplayInitWith(<<>>) /\ FieldIdle /\ LockIdle /\ EvalIdle /\ ServiceIdle
SpecRecv == RecvSpecInit /\ [][RecvNext]_vars

ReplaySpecInit ==
    /\ SchedIdle /\ RecvInit /\ FieldIdle /\ LockIdle /\ EvalIdle /\ ServiceIdle
    /\ \E d \in Datasets : ReplayInitWith(d)
SpecReplay == ReplaySpecInit /\ [][ReplayNext]_vars

----------------------------------------------------------------------------
\* Properties of the message scheduler

InLoop == pc \in {"poll", "msg", "send"}
Exited == pc \in {"finish", "finish_stats", "done"}

\* the packet indices of the attempts of message i that were sent
SentIndices(i) ==
    LET sent == SelectSeq(attempts[i], LAMBDA a : a.result = "sent") IN
    [k \in 1..Len(sent) |-> sent[k].index]

HasLimit == \E i \in 1..Len(runtime_messages) : runtime_messages[i].packet_count > 0

\* C1: for every message, the packet indices of the packets sent are exactly
\* 0, 1, 2, ... without gap or repeat, whatever failures happen in between,
\* and a message with packet_count > 0 is sent at most packet_count times.
C1_IndicesInOrder ==
    \A i \in DOMAIN attempts :
        LET s == SentIndices(i) IN
        /\ \A k \in 1..Len(s) : s[k] = k - 1
        /\ runtime_messages[i].packet_count > 0 =>
               Len(s) <= runtime_messages[i].packet_count

\* a limited message sent to its limit, with a failed attempt between two sends
C1_Witness ==
    \E i \in DOMAIN attempts :
        /\ runtime_messages[i].packet_count = 2
        /\ SentIndices(i) = <<0, 1>>
        /\ \E k \in 2..(Len(attempts[i]) - 1) :
              /\ attempts[i][k].result # "sent"
              /\ attempts[i][k - 1].result = "sent"
              /\ attempts[i][k + 1].result = "sent"

\* every limited message has emitted packet_count packets
LimitsMet ==
    \A i \in DOMAIN attempts :
        runtime_messages[i].packet_count > 0 =>
            Len(SentIndices(i)) >= runtime_messages[i].packet_count

\* C2: once at least one message has a limit and every limited message has
\* emitted packet_count packets, the next tick's start leaves the loop and no
\* packet is attempted in that tick; with no limited message the loop is left
\* only on a stop request.
C2_AutoStop ==
    [][ (pc = "poll" /\ pc' # "poll") =>
          /\ (state = "Running" /\ HasLimit /\ LimitsMet) =>
                /\ pc' = "finish"
                /\ exitBy' = "auto"
                /\ attempts' = attempts
                /\ \A i \in DOMAIN attempts : \A k \in 1..Len(attempts[i]) :
                      attempts[i][k].tick < ticks
          /\ ~HasLimit => (pc' = "finish" => state \in {"Idle", "Error"})
          /\ ~HasLimit => exitBy' # "auto"
      ]_vars

\* the loop was left by auto-stop while an unlimited message was due
C2_Witness ==
    /\ pc = "finish"
    /\ exitBy = "auto"
    /\ \E i \in 1..Len(runtime_messages) :
          /\ runtime_messages[i].packet_count = 0
          /\ ShouldSend(last_send_times[i], now, runtime_messages[i].interval)

NoFault == failures = 0 /\ ~stopIssued

AllLimited ==
    /\ Len(runtime_messages) > 0
    /\ \A i \in 1..Len(runtime_messages) : runtime_messages[i].packet_count > 0

TotalSent == SumSeq([i \in DOMAIN attempts |-> Len(SentIndices(i))])

SumOfCounts ==
    SumSeq([i \in 1..Len(runtime_messages) |-> runtime_messages[i].packet_count])

\* an interval rounded up to a whole number of ticks
RoundUp(interval) == ((interval + TickMs - 1) \div TickMs) * TickMs

StatedBound ==
    MaxSeq([i \in 1..Len(runtime_messages) |->
              runtime_messages[i].packet_count * runtime_messages[i].interval]) + 100

TickBound ==
    MaxSeq([i \in 1..Len(runtime_messages) |->
              runtime_messages[i].packet_count * RoundUp(runtime_messages[i].interval)])
    + 100

\* C3 as stated: without stop request or failure, a scheduler whose messages
\* are all limited emits exactly the sum of the packet counts and has left the
\* loop by max(packet_count * interval) + 100 ms.
C3_AsStated ==
    (NoFault /\ AllLimited) =>
        /\ InLoop => clock <= StatedBound
        /\ Exited => (TotalSent = SumOfCounts /\ clock <= StatedBound)

\* C3 amended: the same with every interval rounded up to a multiple of the
\* 10 ms tick.
C3_TickBound ==
    (NoFault /\ AllLimited) =>
        /\ InLoop => clock <= TickBound
        /\ Exited => (TotalSent = SumOfCounts /\ clock <= TickBound)

\* the integration scenario ran to its end: 7 packets, within 600 ms
C3_Witness ==
    /\ messages = ExampleI2
    /\ pc = "done"
    /\ NoFault
    /\ TotalSent = 7
    /\ clock <= 600

\* C4: a stop request made after start_sender returned is never overwritten
\* by the task's own transition to Running, so the next poll leaves the loop.
C4_StopNotLost == stopIssued => state # "Running"

\* C7 as stated: after a clean exit through auto-stop the shared state is
\* Completed.
C7_AsStated ==
    (pc = "done" /\ exitBy = "auto" /\ ~stopIssued) => state = "Completed"

\* C7 amended: after a clean exit through auto-stop the shared state is Idle.
C7_IdleAfterAutoStop ==
    (pc = "done" /\ exitBy = "auto" /\ ~stopIssued) => state = "Idle"

C7_Witness == pc = "done" /\ exitBy = "auto" /\ ~stopIssued /\ state = "Idle"

StatOf(st, name) == IF name \in DOMAIN st THEN st[name] ELSE NewMessageStats

\* C10: a failed generate_packet or send_to adds exactly one to the message's
\* error counter, leaves its packet and byte counts and the other messages'
\* entries alone, and the loop goes on with the next message of the same tick.
C10_FailureCounted ==
    [][ failures' = failures + 1 =>
          LET name == runtime_messages[idx].name IN
          /\ StatOf(stats', name).errors = StatOf(stats, name).errors + 1
          /\ StatOf(stats', name).packets_sent = StatOf(stats, name).packets_sent
          /\ StatOf(stats', name).bytes_sent = StatOf(stats, name).bytes_sent
          /\ \A other \in DOMAIN stats' \ {name} :
                other \in DOMAIN stats /\ stats'[other] = stats[other]
          /\ packet_counters' = packet_counters
          /\ last_send_times' = last_send_times
          /\ pc' = "msg"
          /\ idx' = idx + 1
          /\ now' = now
          /\ ticks' = ticks
      ]_vars

\* a message failed and a message declared after it was sent in the same tick
C10_Witness ==
    \E i \in DOMAIN attempts : \E j \in DOMAIN attempts :
        /\ i < j
        /\ \E k \in 1..Len(attempts[i]) : \E l \in 1..Len(attempts[j]) :
              /\ attempts[i][k].result # "sent"
              /\ attempts[j][l].result = "sent"
              /\ attempts[i][k].tick = attempts[j][l].tick

----------------------------------------------------------------------------
\* Properties of the capture loop

\* C5: once the state has been set to Idle the capture loop is left within one
\* 100 ms tick, whatever datagrams and receive errors arrive.
C5_ExitWithinTick ==
    (rStopAt # None /\ rPc = "select") => rClock - rStopAt[1] <= PollMs

----------------------------------------------------------------------------
\* Properties of the replayer

\* C6: the replayer never lets more than 100 ms pass between two looks at the
\* shared state, so no packet is sent more than 100 ms after it became Idle.
C6_PollWithin100 ==
    /\ pObsGap <= StopCheckMs
    /\ pStopAt # None =>
          \A k \in 1..Len(sendTimes) :
              sendTimes[k].ok => sendTimes[k].at - pStopAt[1] <= StopCheckMs

\* C8: a replayer that left its loop because the state had been set to Idle
\* before the end of the dataset leaves the state Idle.
C8_IdleKept == (pPc = "done" /\ pLeftBy = "stop") => pState = "Idle"

NonDecreasing(d) == \A k \in 1..(Len(d) - 1) : d[k] <= d[k + 1]

\* C9: with non-decreasing timestamps, every packet after the first is handed
\* to send_to no earlier than real_start + (t - first_packet_time).
C9_NotEarly ==
    NonDecreasing(dataset) =>
        \A k \in 2..Len(sendTimes) :
            sendTimes[k].at >= real_start_time[1] + (dataset[k] - dataset[1])

\* ---------------------------------------------------------------------
\* C11: the scheduler does not retry a failed send: after send_to fails
\* for a message, that message is not attempted again on the following
\* 10 ms tick, and its next attempt comes no earlier than interval_ms
\* after the failed attempt.  Stated over the recorded attempts: an
\* attempt that follows a send failure of the same message is neither
\* on the very next tick nor less than the interval later.
C11_NoRetryAfterSendError ==
    \A i \in DOMAIN attempts : \A k \in 1..(Len(attempts[i]) - 1) :
        attempts[i][k].result = "send_err"
            => /\ attempts[i][k + 1].tick # attempts[i][k].tick + 1
               /\ attempts[i][k + 1].at - attempts[i][k].at
                      >= runtime_messages[i].interval

----------------------------------------------------------------------------
\* Field types, default expressions and packet assembly
\* (core/field_types, app/config/message_types.rs).
\*
\* A string is a sequence of one-character strings, a byte vector a sequence
\* of 0..255.  A Result is a record whose kind is "ok", "err" or "panic";
\* an Option is None or Some(x).  Where the body of a function binds an
\* intermediate value, the rest of the body is a local operator that takes
\* the value as its parameter.

Ok(v) == [kind |-> "ok", value |-> v]
Err == [kind |-> "err"]
Panic == [kind |-> "panic"]

IsOk(r) == r.kind = "ok"

\* str::trim: leading and trailing white space is dropped
trim(s) ==
    IF \A k \in 1..Len(s) : s[k] = " " THEN <<>>
    ELSE SubSeq(s,
                CHOOSE a \in 1..Len(s) :
                    s[a] # " " /\ \A h \in 1..(a - 1) : s[h] = " ",
                CHOOSE b \in 1..Len(s) :
                    s[b] # " " /\ \A h \in (b + 1)..Len(s) : s[h] = " ")

\* str::starts_with
starts_with(s, prefix) ==
    Len(s) >= Len(prefix) /\ SubSeq(s, 1, Len(prefix)) = prefix

\* str::find(char): the position (from 1) of the first occurrence, or None
find(s, c) ==
    IF \E k \in 1..Len(s) : s[k] = c
    THEN Some(CHOOSE k \in 1..Len(s) :
                  s[k] = c /\ \A h \in 1..(k - 1) : s[h] # c)
    ELSE None

\* str::contains(&str)
contains(s, pat) ==
    \E k \in 1..(Len(s) - Len(pat) + 1) : SubSeq(s, k, k + Len(pat) - 1) = pat

\* str::strip_suffix
strip_suffix(s, suffix) ==
    IF /\ Len(s) >= Len(suffix)
       /\ SubSeq(s, Len(s) - Len(suffix) + 1, Len(s)) = suffix
    THEN Some(SubSeq(s, 1, Len(s) - Len(suffix)))
    ELSE None

\* str::split(char): the pieces between the separators, empty pieces included
RECURSIVE split(_, _)
split(s, c) ==
    LET split_at(at) ==
            IF at = None THEN <<s>>
            ELSE <<SubSeq(s, 1, at[1] - 1)>>
                     \o split(SubSeq(s, at[1] + 1, Len(s)), c)
    IN split_at(find(s, c))

\* inner.split(',').map(|p| p.trim()).filter(|p| !p.is_empty()).collect()
split_args(inner) ==
    LET trim_and_filter(pieces) ==
            SelectSeq([k \in 1..Len(pieces) |-> trim(pieces[k])],
                      LAMBDA q : q # <<>>)
    IN trim_and_filter(split(inner, ","))

\* the loop of from_str_radix over the digits, read left to right with
\* char::to_digit(radix); a character that is no digit is an error
RECURSIVE digits_value(_, _, _)
digits_value(s, radix, acc) ==
    LET to_digit(c) ==
            CASE c = "0" -> 0 [] c = "1" -> 1 [] c = "2" -> 2 [] c = "3" -> 3
              [] c = "4" -> 4 [] c = "5" -> 5 [] c = "6" -> 6 [] c = "7" -> 7
              [] c = "8" -> 8 [] c = "9" -> 9
              [] c \in {"a", "A"} -> 10 [] c \in {"b", "B"} -> 11
              [] c \in {"c", "C"} -> 12 [] c \in {"d", "D"} -> 13
              [] c \in {"e", "E"} -> 14 [] c \in {"f", "F"} -> 15
              [] OTHER -> radix
        step(d) ==
            IF d >= radix THEN None
            ELSE digits_value(Tail(s), radix, acc * radix + d)
    IN IF s = <<>> THEN Some(acc) ELSE step(to_digit(Head(s)))

\* from_str_radix (str::parse for the integer types with radix 10): an
\* optional sign, '-' for a signed type only, then at least one digit
from_str_radix(src, radix, is_signed) ==
    LET digits(d) == IF d = <<>> THEN None ELSE digits_value(d, radix, 0)
        negate(m) == IF m = None THEN None ELSE Some(0 - m[1])
    IN IF src # <<>> /\ Head(src) = "+" THEN digits(Tail(src))
       ELSE IF src # <<>> /\ Head(src) = "-" /\ is_signed
       THEN negate(digits(Tail(src)))
       ELSE digits(src)

\* FieldDataType: the fixed-width variants are records of their tag
SignedTags == {"I8", "I16", "I32", "I64"}

UnsignedTags == {"U8", "U16", "U32", "U64"}

FloatTags == {"F32", "F64"}

\* FieldDataType::HexDynamic(size)
HexDynamic(size) == [tag |-> "HexDynamic", size |-> size]

\* the number of bytes of a value of the type (the length of default_value)
Width(ty) ==
    CASE ty.tag \in {"I8", "U8", "Bool"} -> 1
      [] ty.tag \in {"I16", "U16"} -> 2
      [] ty.tag \in {"I32", "U32", "F32"} -> 4
      [] ty.tag \in {"I64", "U64", "F64"} -> 8
      [] ty.tag = "HexDynamic" -> ty.size

\* FieldDataType::default_value: Width(ty) zero bytes
default_value(ty) == [k \in 1..Width(ty) |-> 0]

\* to_le_bytes of an integer of w bytes, two's complement for a negative one;
\* also the bytes that an `as` cast to the w-byte type keeps
RECURSIVE to_le_bytes(_, _)
to_le_bytes(v, w) ==
    IF w = 0 THEN <<>> ELSE <<v % 256>> \o to_le_bytes(v \div 256, w - 1)

\* str::parse::<f32/f64> on the float literals of this model
parse_float(s) ==
    CASE s \in {<<"0">>, <<"0", ".", "0">>} -> Some("zero")
      [] s \in {<<"1">>, <<"1", ".", "0">>} -> Some("one")
      [] OTHER -> None

\* f32/f64::to_le_bytes: the IEEE 754 bytes of 0.0 and of 1.0
float_to_le_bytes(f, w) ==
    IF f = "zero" THEN [k \in 1..w |-> 0]
    ELSE IF w = 4 THEN <<0, 0, 128, 63>> ELSE <<0, 0, 0, 0, 0, 0, 240, 63>>

\* parse_numeric_literal::<T> followed by val.to_le_bytes().to_vec(): the
\* text is trimmed and read by str::parse::<T>, which rejects a value
\* outside the type (the literals of this model are below 2^31 in magnitude)
parse_numeric_literal(raw, ty) ==
    LET in_range(v) ==
            CASE ty.tag = "I8" -> v >= -128 /\ v <= 127
              [] ty.tag = "U8" -> v >= 0 /\ v <= 255
              [] ty.tag = "I16" -> v >= -32768 /\ v <= 32767
              [] ty.tag = "U16" -> v >= 0 /\ v <= 65535
              [] ty.tag \in {"I32", "I64"} -> TRUE
              [] ty.tag \in {"U32", "U64"} -> v >= 0
        number_bytes(n) ==
            IF n = None THEN Err
            ELSE IF ty.tag \in FloatTags
            THEN Ok(float_to_le_bytes(n[1], Width(ty)))
            ELSE IF ~in_range(n[1]) THEN Err
            ELSE Ok(to_le_bytes(n[1], Width(ty)))
        parse(v) ==
            IF ty.tag \in FloatTags THEN parse_float(v)
            ELSE from_str_radix(v, 10, ty.tag \in SignedTags)
    IN number_bytes(parse(trim(raw)))

\* parse_bool_literal, the result as the byte of the bool
parse_bool_literal(raw) ==
    LET lower(c) ==
            CASE c = "A" -> "a" [] c = "B" -> "b" [] c = "C" -> "c"
              [] c = "D" -> "d" [] c = "E" -> "e" [] c = "F" -> "f"
              [] c = "G" -> "g" [] c = "H" -> "h" [] c = "I" -> "i"
              [] c = "J" -> "j" [] c = "K" -> "k" [] c = "L" -> "l"
              [] c = "M" -> "m" [] c = "N" -> "n" [] c = "O" -> "o"
              [] c = "P" -> "p" [] c = "Q" -> "q" [] c = "R" -> "r"
              [] c = "S" -> "s" [] c = "T" -> "t" [] c = "U" -> "u"
              [] c = "V" -> "v" [] c = "W" -> "w" [] c = "X" -> "x"
              [] c = "Y" -> "y" [] c = "Z" -> "z" [] OTHER -> c
        bool_of(v) ==
            CASE v \in {<<"t", "r", "u", "e">>, <<"1">>, <<"y", "e", "s">>,
                        <<"o", "n">>} -> Ok(<<1>>)
              [] v \in {<<"f", "a", "l", "s", "e">>, <<"0">>, <<"n", "o">>,
                        <<"o", "f", "f">>} -> Ok(<<0>>)
              [] OTHER -> Err
        to_lowercase(s) == [k \in 1..Len(s) |-> lower(s[k])]
    IN bool_of(to_lowercase(trim(raw)))

\* the loop of parse_hex_string over the two-character chunks, each read by
\* u8::from_str_radix(pair, 16)
RECURSIVE hex_pairs(_)
hex_pairs(s) ==
    LET prepend_byte(b, rest) ==
            IF rest = None THEN None ELSE Some(<<b>> \o rest[1])
        push_byte(b) ==
            IF b = None THEN None
            ELSE prepend_byte(b[1], hex_pairs(SubSeq(s, 3, Len(s))))
    IN IF s = <<>> THEN Some(<<>>)
       ELSE push_byte(from_str_radix(SubSeq(s, 1, 2), 16, FALSE))

\* parse_hex_string with the bytes in little-endian order
parse_hex_string_reversed(hex_str) ==
    LET reversed(r) ==
            IF IsOk(r)
            THEN Ok([k \in 1..Len(r.value) |-> r.value[Len(r.value) + 1 - k]])
            ELSE r
        strip_0x(t) ==
            IF starts_with(t, <<"0", "x">>) \/ starts_with(t, <<"0", "X">>)
            THEN SubSeq(t, 3, Len(t)) ELSE t
        bytes_result(bytes) == IF bytes = None THEN Err ELSE Ok(bytes[1])
        hex_digits_to_bytes(d) ==
            IF d = <<>> THEN Ok(<<0>>)
            ELSE bytes_result(hex_pairs(IF Len(d) % 2 = 1 THEN <<"0">> \o d ELSE d))
    IN reversed(hex_digits_to_bytes(strip_0x(trim(hex_str))))

\* parse_hex_string: the text is trimmed, a 0x or 0X prefix is removed, no
\* digit gives one zero byte, an odd number of digits is padded with a
\* leading 0; the bytes come in the order in which the text names them
parse_hex_string(hex_str) ==
    LET strip_0x(t) ==
            IF starts_with(t, <<"0", "x">>) \/ starts_with(t, <<"0", "X">>)
            THEN SubSeq(t, 3, Len(t)) ELSE t
        bytes_result(bytes) == IF bytes = None THEN Err ELSE Ok(bytes[1])
        hex_digits_to_bytes(d) ==
            IF d = <<>> THEN Ok(<<0>>)
            ELSE bytes_result(hex_pairs(IF Len(d) % 2 = 1 THEN <<"0">> \o d ELSE d))
    IN hex_digits_to_bytes(strip_0x(trim(hex_str)))

\* parse_field_value_by_type: the value is trimmed and read in the type; a
\* hex value must have the length of the type
parse_field_value_by_type(data_type, value) ==
    LET check_len(r, size) == IF IsOk(r) /\ Len(r.value) # size THEN Err ELSE r
    IN CASE data_type.tag = "Bool" -> parse_bool_literal(trim(value))
         [] data_type.tag = "HexDynamic" ->
               check_len(parse_hex_string(trim(value)), data_type.size)
         [] OTHER -> parse_numeric_literal(trim(value), data_type)

\* parse_switch_condition: an i32 gives Absolute if positive, Relative if
\* negative and an error if zero; otherwise start-end with the dash after
\* the first character, both ends from 1 and start <= end
parse_switch_condition(condition_str) ==
    LET range_of(start, end) ==
            IF start = None \/ end = None THEN Err
            ELSE IF start[1] = 0 \/ end[1] = 0 THEN Err
            ELSE IF start[1] > end[1] THEN Err
            ELSE Ok([kind |-> "Range", start |-> start[1], end |-> end[1]])
        range_condition(dash) ==
            IF dash # None /\ dash[1] > 1
            THEN range_of(
                     from_str_radix(SubSeq(condition_str, 1, dash[1] - 1), 10, FALSE),
                     from_str_radix(
                         SubSeq(condition_str, dash[1] + 1, Len(condition_str)),
                         10, FALSE))
            ELSE Err
        condition_of(num) ==
            IF num # None
            THEN IF num[1] > 0 THEN Ok([kind |-> "Absolute", pos |-> num[1]])
                 ELSE IF num[1] < 0 THEN Ok([kind |-> "Relative", offset |-> num[1]])
                 ELSE Err
            ELSE range_condition(find(condition_str, "-"))
    IN condition_of(from_str_radix(condition_str, 10, TRUE))

\* the loop of parse_switch_expr over the rules condition:value, in
\* declaration order
RECURSIVE parse_switch_rules(_)
parse_switch_rules(parts) ==
    LET push_rule(condition, value, rest) ==
            IF ~IsOk(condition) \/ ~IsOk(rest) THEN Err
            ELSE Ok(<<[condition |-> condition.value, value |-> value]>>
                        \o rest.value)
        rule_of(rule_parts) ==
            IF Len(rule_parts) # 2 THEN Err
            ELSE push_rule(parse_switch_condition(trim(rule_parts[1])),
                           trim(rule_parts[2]),
                           parse_switch_rules(Tail(parts)))
    IN IF parts = <<>> THEN Ok(<<>>) ELSE rule_of(split(Head(parts), ":"))

\* parse_switch_expr: the default value, then at least one rule
parse_switch_expr(inner) ==
    LET switch_with(default, rules) ==
            IF ~IsOk(rules) THEN Err
            ELSE Ok([kind |-> "Switch", default_value |-> default,
                     rules |-> rules.value])
        switch_of(parts) ==
            IF Len(parts) < 2 THEN Err
            ELSE switch_with(parts[1], parse_switch_rules(Tail(parts)))
    IN switch_of(split_args(inner))

\* parse_loop_expr: at least two items
parse_loop_expr(inner) ==
    LET loop_of(items) ==
            IF Len(items) < 2 THEN Err ELSE Ok([kind |-> "Loop", items |-> items])
    IN loop_of(split_args(inner))

\* parse_literal
parse_literal(expr) == [kind |-> "Literal", literal |-> expr]

\* a u128 is kept as its sixteen bytes, least significant first
U128Bytes == 16

\* bitwise or of two bytes
RECURSIVE bit_or(_, _)
bit_or(a, b) ==
    IF a = 0 THEN b
    ELSE IF b = 0 THEN a
    ELSE (IF a % 2 = 1 \/ b % 2 = 1 THEN 1 ELSE 0) + 2 * bit_or(a \div 2, b \div 2)

\* a > b on u128
u128_gt(a, b) ==
    \E k \in 1..U128Bytes :
        /\ a[k] > b[k]
        /\ \A j \in (k + 1)..U128Bytes : a[j] = b[j]

\* str::parse::<i128> (is_signed) and str::parse::<u128> for a text whose
\* value need not fit an integer of this model: the value as sixteen bytes,
\* least significant first, two's complement when negative.  The digits are
\* read left to right, result = result * 10 + digit, and an overflow of the
\* sixteen bytes (for i128 of the 127 bits) is an error.
parse_wide(src, is_signed) ==
    LET to_digit(c) ==
            CASE c = "0" -> 0 [] c = "1" -> 1 [] c = "2" -> 2 [] c = "3" -> 3
              [] c = "4" -> 4 [] c = "5" -> 5 [] c = "6" -> 6 [] c = "7" -> 7
              [] c = "8" -> 8 [] c = "9" -> 9 [] OTHER -> 10
        RECURSIVE mul_add(_, _, _)
        mul_add(bytes, k, carry) ==
            IF k > U128Bytes THEN (IF carry = 0 THEN Some(bytes) ELSE None)
            ELSE mul_add([bytes EXCEPT ![k] = (bytes[k] * 10 + carry) % 256],
                         k + 1, (bytes[k] * 10 + carry) \div 256)
        RECURSIVE read(_, _)
        read(s, acc) ==
            IF acc = None THEN None
            ELSE IF s = <<>> THEN acc
            ELSE IF to_digit(Head(s)) = 10 THEN None
            ELSE read(Tail(s), mul_add(acc[1], 1, to_digit(Head(s))))
        digits(d) ==
            IF d = <<>> THEN None ELSE read(d, Some([k \in 1..U128Bytes |-> 0]))
        RECURSIVE add_one(_, _)
        add_one(bytes, k) ==
            IF k > U128Bytes THEN bytes
            ELSE IF bytes[k] = 255 THEN add_one([bytes EXCEPT ![k] = 0], k + 1)
            ELSE [bytes EXCEPT ![k] = @ + 1]
        in_i128(m) ==
            IF m = None THEN None
            ELSE IF is_signed /\ m[1][U128Bytes] >= 128 THEN None
            ELSE m
        negate(m) ==
            IF m = None THEN None
            ELSE Some(add_one([k \in 1..U128Bytes |-> 255 - m[1][k]], 1))
    IN IF src # <<>> /\ Head(src) = "+" THEN in_i128(digits(Tail(src)))
       ELSE IF src # <<>> /\ Head(src) = "-" /\ is_signed
       THEN negate(in_i128(digits(Tail(src))))
       ELSE in_i128(digits(src))

\* parse_int_random: two bounds parsed as i128, min <= max.  Bounds of at
\* most nine characters are kept as integers, longer ones as the bytes of
\* the i128 (the expression is then marked wide).
parse_int_random(inner) ==
    LET rand_of(min, max) ==
            IF min = None \/ max = None THEN Err
            ELSE IF min[1] > max[1] THEN Err
            ELSE Ok([kind |-> "RandInt", min |-> min[1], max |-> max[1]])
        flip(v) == [v EXCEPT ![U128Bytes] = (@ + 128) % 256]
        wide_of(min, max) ==
            IF min = None \/ max = None THEN Err
            ELSE IF u128_gt(flip(min[1]), flip(max[1])) THEN Err
            ELSE Ok([kind |-> "RandInt", min |-> min[1], max |-> max[1],
                     wide |-> TRUE])
        range_of(parts) ==
            IF Len(parts) # 2 THEN Err
            ELSE IF Len(parts[1]) > 9 \/ Len(parts[2]) > 9
            THEN wide_of(parse_wide(parts[1], TRUE), parse_wide(parts[2], TRUE))
            ELSE rand_of(from_str_radix(parts[1], 10, TRUE),
                         from_str_radix(parts[2], 10, TRUE))
    IN range_of(split_args(inner))

\* parse_uint_random: two bounds parsed as u128, min <= max
parse_uint_random(inner) ==
    LET rand_of(min, max) ==
            IF min = None \/ max = None THEN Err
            ELSE IF min[1] > max[1] THEN Err
            ELSE Ok([kind |-> "RandUint", min |-> min[1], max |-> max[1]])
        wide_of(min, max) ==
            IF min = None \/ max = None THEN Err
            ELSE IF u128_gt(min[1], max[1]) THEN Err
            ELSE Ok([kind |-> "RandUint", min |-> min[1], max |-> max[1],
                     wide |-> TRUE])
        range_of(parts) ==
            IF Len(parts) # 2 THEN Err
            ELSE IF Len(parts[1]) > 9 \/ Len(parts[2]) > 9
            THEN wide_of(parse_wide(parts[1], FALSE), parse_wide(parts[2], FALSE))
            ELSE rand_of(from_str_radix(parts[1], 10, FALSE),
                         from_str_radix(parts[2], 10, FALSE))
    IN range_of(split_args(inner))

\* parse_float_random, on the float literals of this model
parse_float_random(inner) ==
    LET rand_of(min, max) ==
            IF min = None \/ max = None THEN Err
            ELSE IF min[1] = "one" /\ max[1] = "zero" THEN Err
            ELSE Ok([kind |-> "RandFloat", min |-> min[1], max |-> max[1]])
        range_of(parts) ==
            IF Len(parts) # 2 THEN Err
            ELSE rand_of(parse_float(parts[1]), parse_float(parts[2]))
    IN range_of(split_args(inner))

\* the loop of parse_hex_u128: val |= (b as u128) << (8 * i).  A shift by
\* 128 bits or more overflows: with overflow checks the build panics,
\* without them the shift amount is taken modulo 128.
RECURSIVE shift_or_bytes(_, _, _, _)
shift_or_bytes(bytes, i, val, overflow_checks) ==
    IF i >= Len(bytes) THEN Ok(val)
    ELSE IF 8 * i >= 8 * U128Bytes /\ overflow_checks THEN Panic
    ELSE shift_or_bytes(bytes, i + 1,
             [val EXCEPT ![(i % U128Bytes) + 1] = bit_or(@, bytes[i + 1])],
             overflow_checks)

\* parse_hex_u128
parse_hex_u128(hex_str, overflow_checks) ==
    LET u128_of(bytes) ==
            IF ~IsOk(bytes) THEN Err
            ELSE shift_or_bytes(bytes.value, 0, [k \in 1..U128Bytes |-> 0],
                                overflow_checks)
    IN u128_of(parse_hex_string(hex_str))

\* parse_hex_random: two bounds read by parse_hex_u128, min <= max and
\* max <= max_allowed, which is 2^(8 size) - 1 below 16 bytes
parse_hex_random(inner, size, overflow_checks) ==
    LET rand_hex_of(min, max) ==
            IF ~IsOk(min) THEN min
            ELSE IF ~IsOk(max) THEN max
            ELSE IF u128_gt(min.value, max.value) THEN Err
            ELSE IF /\ size < U128Bytes
                    /\ \E k \in (size + 1)..U128Bytes : max.value[k] # 0
            THEN Err
            ELSE Ok([kind |-> "RandHex", min |-> min.value, max |-> max.value,
                     byte_size |-> size])
        range_of(parts) ==
            IF Len(parts) # 2 THEN Err
            ELSE rand_hex_of(parse_hex_u128(parts[1], overflow_checks),
                             parse_hex_u128(parts[2], overflow_checks))
    IN range_of(split_args(inner))

\* parse_random_expr
parse_random_expr(inner, data_type, overflow_checks) ==
    CASE data_type.tag = "Bool" ->
            IF trim(inner) # <<>> THEN Err ELSE Ok([kind |-> "RandBool"])
      [] data_type.tag \in FloatTags -> parse_float_random(inner)
      [] data_type.tag \in SignedTags -> parse_int_random(inner)
      [] data_type.tag \in UnsignedTags -> parse_uint_random(inner)
      [] data_type.tag = "HexDynamic" ->
            parse_hex_random(inner, data_type.size, overflow_checks)

\* DefaultExpr::parse: the trimmed text is a rand(...), a loop(...), a
\* switch(...) with its closing parenthesis, or a literal
DefaultExpr_parse(raw, data_type, overflow_checks) ==
    LET inner_of(expr, word) ==
            strip_suffix(SubSeq(expr, Len(word) + 1, Len(expr)), <<")">>)
        rand_inner(inner) ==
            IF inner = None THEN Err
            ELSE parse_random_expr(inner[1], data_type, overflow_checks)
        loop_inner(inner) ==
            IF inner = None THEN Err ELSE parse_loop_expr(inner[1])
        switch_inner(inner) ==
            IF inner = None THEN Err ELSE parse_switch_expr(inner[1])
        parse_trimmed(expr) ==
            IF starts_with(expr, <<"r", "a", "n", "d", "(">>)
            THEN rand_inner(inner_of(expr, <<"r", "a", "n", "d", "(">>))
            ELSE IF starts_with(expr, <<"l", "o", "o", "p", "(">>)
            THEN loop_inner(inner_of(expr, <<"l", "o", "o", "p", "(">>))
            ELSE IF starts_with(expr, <<"s", "w", "i", "t", "c", "h", "(">>)
            THEN switch_inner(inner_of(expr, <<"s", "w", "i", "t", "c", "h", "(">>))
            ELSE Ok(parse_literal(expr))
    IN parse_trimmed(trim(raw))

\* the match of parse_type_and_default on the text left of '='
parse_base_type(base) ==
    LET hex_sized(size) == IF size = None THEN Err ELSE Ok(HexDynamic(size[1]))
    IN CASE base = <<"i", "8">> -> Ok([tag |-> "I8"])
         [] base = <<"i", "1", "6">> -> Ok([tag |-> "I16"])
         [] base = <<"i", "3", "2">> -> Ok([tag |-> "I32"])
         [] base = <<"i", "6", "4">> -> Ok([tag |-> "I64"])
         [] base = <<"u", "8">> -> Ok([tag |-> "U8"])
         [] base = <<"u", "1", "6">> -> Ok([tag |-> "U16"])
         [] base = <<"u", "3", "2">> -> Ok([tag |-> "U32"])
         [] base = <<"u", "6", "4">> -> Ok([tag |-> "U64"])
         [] base = <<"f", "3", "2">> -> Ok([tag |-> "F32"])
         [] base = <<"f", "6", "4">> -> Ok([tag |-> "F64"])
         [] base = <<"b", "o", "o", "l">> -> Ok([tag |-> "Bool"])
         [] starts_with(base, <<"h", "e", "x", "_">>) ->
               hex_sized(from_str_radix(SubSeq(base, 5, Len(base)), 10, FALSE))
         [] base = <<"h", "e", "x">> -> Ok(HexDynamic(1))
         [] OTHER -> Err

\* FieldDataType::parse_type_and_default: the text is trimmed and split at
\* the first '='; the base type and the expression are parsed; a hex type of
\* size 1 with a literal default takes its size from the literal
parse_type_and_default(type_str, overflow_checks) ==
    LET widen(base_ty, bytes) ==
            IF IsOk(bytes) THEN HexDynamic(Len(bytes.value)) ELSE base_ty
        final_ty(base_ty, expr) ==
            IF base_ty.tag = "HexDynamic" /\ expr.kind = "Literal" /\ base_ty.size = 1
            THEN widen(base_ty, parse_hex_string(expr.literal))
            ELSE base_ty
        with_default(base_ty, default_expr) ==
            IF ~IsOk(default_expr) THEN default_expr
            ELSE Ok([data_type |-> final_ty(base_ty, default_expr.value),
                     default_expr |-> Some(default_expr.value)])
        typed(base_ty, expr_opt) ==
            IF ~IsOk(base_ty) THEN Err
            ELSE IF expr_opt = None
            THEN Ok([data_type |-> base_ty.value, default_expr |-> None])
            ELSE with_default(base_ty.value,
                     DefaultExpr_parse(expr_opt[1], base_ty.value, overflow_checks))
        base_of(s, eq_idx) ==
            IF eq_idx = None THEN s ELSE trim(SubSeq(s, 1, eq_idx[1] - 1))
        expr_of(s, eq_idx) ==
            IF eq_idx = None THEN None
            ELSE Some(trim(SubSeq(s, eq_idx[1] + 1, Len(s))))
        split_type(s, eq_idx) ==
            typed(parse_base_type(base_of(s, eq_idx)), expr_of(s, eq_idx))
        type_of_trimmed(s) == split_type(s, find(s, "="))
    IN type_of_trimmed(trim(type_str))

\* The evaluators draw random numbers, so each of them is given as the set of
\* the results one call can return.

\* evaluate_literal
evaluate_literal(literal, data_type) ==
    LET sized(r, size) == IF IsOk(r) /\ Len(r.value) # size THEN Err ELSE r
    IN CASE data_type.tag = "Bool" -> parse_bool_literal(literal)
         [] data_type.tag = "HexDynamic" ->
               sized(parse_hex_string(literal), data_type.size)
         [] OTHER -> parse_numeric_literal(literal, data_type)

\* evaluate_rand_int: gen_range((min as i64)..=(max as i64)) cast with `as`
\* to the type, which keeps the low bytes of the sample; for I64 the range
\* is the one of the i128 bounds.  gen_range panics on an empty range.  Of a
\* wide range the two ends are drawn.
evaluate_rand_int(min, max, data_type, wide) ==
    LET as_i64(v) == [k \in 1..U128Bytes |->
                         IF k < 8 THEN v[k]
                         ELSE IF k = 8 THEN (v[k] + 128) % 256 ELSE 0]
        low(v, w) == Ok(SubSeq(v, 1, w))
        wide_samples(w) ==
            IF w < 8 /\ u128_gt(as_i64(min), as_i64(max)) THEN {Panic}
            ELSE {low(min, w), low(max, w)}
    IN IF data_type.tag \notin SignedTags THEN {Err}
       ELSE IF wide THEN wide_samples(Width(data_type))
       ELSE IF min > max THEN {Panic}
       ELSE {Ok(to_le_bytes(v, Width(data_type))) : v \in min..max}

\* evaluate_rand_uint: as evaluate_rand_int, with u64 and u128
evaluate_rand_uint(min, max, data_type, wide) ==
    LET as_u64(v) == [k \in 1..U128Bytes |-> IF k <= 8 THEN v[k] ELSE 0]
        low(v, w) == Ok(SubSeq(v, 1, w))
        wide_samples(w) ==
            IF w < 8 /\ u128_gt(as_u64(min), as_u64(max)) THEN {Panic}
            ELSE {low(min, w), low(max, w)}
    IN IF data_type.tag \notin UnsignedTags THEN {Err}
       ELSE IF wide THEN wide_samples(Width(data_type))
       ELSE IF min > max THEN {Panic}
       ELSE {Ok(to_le_bytes(v, Width(data_type))) : v \in min..max}

\* evaluate_rand_float (of the samples, the two ends of the interval)
evaluate_rand_float(min, max, data_type) ==
    IF data_type.tag \in FloatTags
    THEN {Ok(float_to_le_bytes(f, Width(data_type))) : f \in {min, max}}
    ELSE {Err}

\* evaluate_rand_bool
evaluate_rand_bool == {Ok(<<0>>), Ok(<<1>>)}

\* evaluate_rand_hex.  Of the samples of gen_range(min..=max) the two ends
\* are drawn and the two values that follow min, when they differ from it in
\* the lowest byte only.  Byte i of the result is ((v >> (8 * i)) & 0xFF) as u8; the shift
\* overflows from i = 16 on, as the one of parse_hex_u128 does.
evaluate_rand_hex(min, max, byte_size, data_type, overflow_checks) ==
    LET samples ==
            IF min = max THEN {min}
            ELSE {v \in {min, max} \cup {[min EXCEPT ![1] = b] : b \in {c \in 0..255 : min[1] < c /\ c <= min[1] + 2}} :
                      ~u128_gt(min, v) /\ ~u128_gt(v, max)}
    IN IF data_type.tag # "HexDynamic" THEN {Err}
       ELSE IF byte_size # data_type.size THEN {Err}
       ELSE IF data_type.size > U128Bytes /\ overflow_checks THEN {Panic}
       ELSE {Ok([k \in 1..data_type.size |-> v[((k - 1) % U128Bytes) + 1]]) :
                 v \in samples}

\* evaluate_loop with the index clamped to the last item instead of wrapped
evaluate_loop_clamped(items, row_index, data_type) ==
    parse_field_value_by_type(data_type,
        items[IF row_index >= Len(items) THEN Len(items) ELSE row_index + 1])

\* evaluate_loop
evaluate_loop(items, row_index, data_type) ==
    parse_field_value_by_type(data_type, items[(row_index % Len(items)) + 1])

\* matches_condition with the packet index taken as the position
matches_condition_zero_based(condition, packet_index, total_packets) ==
    CASE condition.kind = "Absolute" -> packet_index - 1 = condition.pos
      [] condition.kind = "Relative" ->
            /\ total_packets # None
            /\ total_packets[1] # 0
            /\ packet_index - 1 = total_packets[1] + condition.offset + 1
      [] condition.kind = "Range" ->
            packet_index - 1 >= condition.start /\ packet_index - 1 <= condition.end

\* matches_condition
matches_condition(condition, packet_index, total_packets) ==
    CASE condition.kind = "Absolute" -> packet_index = condition.pos
      [] condition.kind = "Relative" ->
            /\ total_packets # None
            /\ total_packets[1] # 0
            /\ total_packets[1] + condition.offset + 1 > 0
            /\ packet_index = total_packets[1] + condition.offset + 1
      [] condition.kind = "Range" ->
            packet_index >= condition.start /\ packet_index <= condition.end

\* the for loop of evaluate_switch: the first rule that matches returns its
\* value, and the default value is left when none does
RECURSIVE first_match(_, _, _, _)
first_match(rules, packet_index, total_packets, default) ==
    IF rules = <<>> THEN default
    ELSE IF matches_condition(Head(rules).condition, packet_index, total_packets)
    THEN Head(rules).value
    ELSE first_match(Tail(rules), packet_index, total_packets, default)

\* evaluate_switch
evaluate_switch(default, rules, row_index, total_packets, data_type) ==
    parse_field_value_by_type(data_type,
        first_match(rules, row_index + 1, total_packets, default))

\* DefaultExpr::evaluate
evaluate(expr, data_type, row_index, total_packets, overflow_checks) ==
    CASE expr.kind = "Literal" -> {evaluate_literal(expr.literal, data_type)}
      [] expr.kind = "RandInt" ->
            evaluate_rand_int(expr.min, expr.max, data_type, "wide" \in DOMAIN expr)
      [] expr.kind = "RandUint" ->
            evaluate_rand_uint(expr.min, expr.max, data_type, "wide" \in DOMAIN expr)
      [] expr.kind = "RandFloat" -> evaluate_rand_float(expr.min, expr.max, data_type)
      [] expr.kind = "RandBool" -> evaluate_rand_bool
      [] expr.kind = "RandHex" ->
            evaluate_rand_hex(expr.min, expr.max, expr.byte_size, data_type,
                              overflow_checks)
      [] expr.kind = "Loop" -> {evaluate_loop(expr.items, row_index, data_type)}
      [] expr.kind = "Switch" ->
            {evaluate_switch(expr.default_value, expr.rules, row_index,
                             total_packets, data_type)}

\* MessageField
MessageField(name, field_type, editable) ==
    [name |-> name, field_type |-> field_type, editable |-> editable]

\* FieldValue::get_type_default_value_from_parsed
get_type_default_value_from_parsed(data_type) ==
    CASE data_type.tag \in SignedTags \cup UnsignedTags -> <<"0">>
      [] data_type.tag \in FloatTags -> <<"0", ".", "0">>
      [] data_type.tag = "Bool" -> <<"f", "a", "l", "s", "e">>
      [] data_type.tag = "HexDynamic" -> <<"0", "x", "0", "0">>

\* FieldValue::get_type_default_value
get_type_default_value(field_type) ==
    CASE field_type \in {<<"i", "8">>, <<"i", "1", "6">>, <<"i", "3", "2">>,
                         <<"i", "6", "4">>, <<"u", "8">>, <<"u", "1", "6">>,
                         <<"u", "3", "2">>, <<"u", "6", "4">>} -> <<"0">>
      [] field_type \in {<<"f", "3", "2">>, <<"f", "6", "4">>} -> <<"0", ".", "0">>
      [] field_type = <<"b", "o", "o", "l">> -> <<"f", "a", "l", "s", "e">>
      [] field_type = <<"h", "e", "x">> -> <<"0", "x", "0", "0">>
      [] starts_with(field_type, <<"h", "e", "x", "_">>) -> <<"0", "x", "0", "0">>
      [] OTHER -> <<>>

\* FieldValue::from_field: the type and the expression are those the type
\* string parses to, or none; current_value is the text after the first '=',
\* else the default text of the type
from_field(field, overflow_checks) ==
    LET current_value_of(eq_pos, r) ==
            IF eq_pos # None
            THEN SubSeq(field.field_type, eq_pos[1] + 1, Len(field.field_type))
            ELSE IF IsOk(r)
            THEN get_type_default_value_from_parsed(r.value.data_type)
            ELSE get_type_default_value(field.field_type)
        field_value_of(r, eq_pos) ==
            IF r.kind = "panic" THEN Panic
            ELSE Ok([name |-> field.name,
                     field_type |-> field.field_type,
                     current_value |-> current_value_of(eq_pos, r),
                     editable |-> field.editable,
                     parsed_type |->
                         IF IsOk(r) THEN Some(r.value.data_type) ELSE None,
                     default_expr |->
                         IF IsOk(r) THEN r.value.default_expr ELSE None])
    IN field_value_of(parse_type_and_default(field.field_type, overflow_checks),
                      find(field.field_type, "="))

\* MessageRuntimeState::from_definition: from_field on every field, in
\* order; a panic in one of them ends it
RECURSIVE from_definition(_, _)
from_definition(defs, overflow_checks) ==
    LET push_value(made, rest) ==
            IF made.kind = "panic" \/ rest.kind = "panic" THEN Panic
            ELSE Ok(<<made.value>> \o rest.value)
    IN IF defs = <<>> THEN Ok(<<>>)
       ELSE push_value(from_field(Head(defs), overflow_checks),
                       from_definition(Tail(defs), overflow_checks))

\* FieldValue::has_function_expression
has_function_expression(fv) ==
    \/ contains(fv.field_type, <<"r", "a", "n", "d", "(">>)
    \/ contains(fv.field_type, <<"l", "o", "o", "p", "(">>)
    \/ contains(fv.field_type, <<"s", "w", "i", "t", "c", "h", "(">>)

\* FieldValue::should_allow_input
should_allow_input(fv) == fv.editable /\ ~has_function_expression(fv)

\* FieldValue::to_bytes: the field it is called on, the branch taken and the
\* result, one record for each result the call can return
to_bytes(fv, packet_index, total_packets, overflow_checks) ==
    LET parsed_to_bytes(value) ==
            IF value # <<>> /\ should_allow_input(fv)
            THEN {[field |-> fv, branch |-> "current",
                   result |-> parse_field_value_by_type(fv.parsed_type[1], value)]}
            ELSE IF fv.default_expr # None
            THEN {[field |-> fv, branch |-> "expr", result |-> r] :
                      r \in evaluate(fv.default_expr[1], fv.parsed_type[1],
                                     packet_index, total_packets, overflow_checks)}
            ELSE {[field |-> fv, branch |-> "zero",
                   result |-> Ok(default_value(fv.parsed_type[1]))]}
    IN IF fv.parsed_type = None
       THEN {[field |-> fv, branch |-> "unparsed", result |-> Ok(<<>>)]}
       ELSE parsed_to_bytes(trim(fv.current_value))

\* the calls of to_bytes in the for loop of generate_packet: one field after
\* the other, and none after a field that failed
RECURSIVE parts_of(_, _, _, _)
parts_of(fvs, packet_index, total_packets, overflow_checks) ==
    LET after(h) ==
            IF ~IsOk(h.result) THEN {<<h>>}
            ELSE {<<h>> \o t :
                      t \in parts_of(Tail(fvs), packet_index, total_packets,
                                     overflow_checks)}
    IN IF fvs = <<>> THEN {<<>>}
       ELSE UNION {after(h) : h \in to_bytes(Head(fvs), packet_index,
                                             total_packets, overflow_checks)}

\* the result of generate_packet from the results of its to_bytes calls:
\* the first failure, otherwise the bytes in field order
RECURSIVE extend_from_slices(_, _)
extend_from_slices(parts, packet_data) ==
    IF parts = <<>> THEN Ok(packet_data)
    ELSE IF ~IsOk(Head(parts).result) THEN Head(parts).result
    ELSE extend_from_slices(Tail(parts), packet_data \o Head(parts).result.value)

\* The type strings the fields are drawn from
TypeStrings ==
    {
     \* u32
     <<"u", "3", "2">>,
     \* u8=1
     <<"u", "8", "=", "1">>,
     \* u32=1234
     <<"u", "3", "2", "=", "1", "2", "3", "4">>,
     \* i32=-5
     <<"i", "3", "2", "=", "-", "5">>,
     \*  i8 = -5 
     <<" ", "i", "8", " ", "=", " ", "-", "5", " ">>,
     \* u16=0x00AA
     <<"u", "1", "6", "=", "0", "x", "0", "0", "A", "A">>,
     \* u16=170
     <<"u", "1", "6", "=", "1", "7", "0">>,
     \* u8=
     <<"u", "8", "=">>,
     \* f32
     <<"f", "3", "2">>,
     \* f64=1.0
     <<"f", "6", "4", "=", "1", ".", "0">>,
     \* bool=true
     <<"b", "o", "o", "l", "=", "t", "r", "u", "e">>,
     \* bool=rand()
     <<"b", "o", "o", "l", "=", "r", "a", "n", "d", "(", ")">>,
     \* hex
     <<"h", "e", "x">>,
     \* hex_2
     <<"h", "e", "x", "_", "2">>,
     \* hex=0xFF
     <<"h", "e", "x", "=", "0", "x", "F", "F">>,
     \* hex=0x1234
     <<"h", "e", "x", "=", "0", "x", "1", "2", "3", "4">>,
     \* hex_1=0xFF
     <<"h", "e", "x", "_", "1", "=", "0", "x", "F", "F">>,
     \* hex_1=0x1234
     <<"h", "e", "x", "_", "1", "=", "0", "x", "1", "2", "3", "4">>,
     \* hex_2=0x1122
     <<"h", "e", "x", "_", "2", "=", "0", "x", "1", "1", "2", "2">>,
     \* hex_4=0x01
     <<"h", "e", "x", "_", "4", "=", "0", "x", "0", "1">>,
     \* hex_x=0x12
     <<"h", "e", "x", "_", "x", "=", "0", "x", "1", "2">>,
     \* u33
     <<"u", "3", "3">>,
     \* u8=loop(1,2,3)
     <<"u", "8", "=", "l", "o", "o", "p", "(", "1", ",", "2", ",", "3",
       ")">>,
     \* i16=loop(-1, 300)
     <<"i", "1", "6", "=", "l", "o", "o", "p", "(", "-", "1", ",", " ", "3",
       "0", "0", ")">>,
     \* u8=loop(1)
     <<"u", "8", "=", "l", "o", "o", "p", "(", "1", ")">>,
     \* u8=switch(100, -2:200, 3:150)
     <<"u", "8", "=", "s", "w", "i", "t", "c", "h", "(", "1", "0", "0", ",",
       " ", "-", "2", ":", "2", "0", "0", ",", " ", "3", ":", "1", "5", "0",
       ")">>,
     \* u8=switch(7, 2-4:8, 3:9, -1:10)
     <<"u", "8", "=", "s", "w", "i", "t", "c", "h", "(", "7", ",", " ", "2",
       "-", "4", ":", "8", ",", " ", "3", ":", "9", ",", " ", "-", "1", ":",
       "1", "0", ")">>,
     \* u8=switch(1, 0:2)
     <<"u", "8", "=", "s", "w", "i", "t", "c", "h", "(", "1", ",", " ", "0",
       ":", "2", ")">>,
     \* u8=rand(3,5)
     <<"u", "8", "=", "r", "a", "n", "d", "(", "3", ",", "5", ")">>,
     \* u8=rand(250,260)
     <<"u", "8", "=", "r", "a", "n", "d", "(", "2", "5", "0", ",", "2", "6",
       "0", ")">>,
     \* i8=rand(-2,1)
     <<"i", "8", "=", "r", "a", "n", "d", "(", "-", "2", ",", "1", ")">>,
     \* i8=rand(126,129)
     <<"i", "8", "=", "r", "a", "n", "d", "(", "1", "2", "6", ",", "1", "2",
       "9", ")">>,
     \* u8=rand(5,3)
     <<"u", "8", "=", "r", "a", "n", "d", "(", "5", ",", "3", ")">>,
     \* u8=rand(1,2
     <<"u", "8", "=", "r", "a", "n", "d", "(", "1", ",", "2">>,
     \* hex_2=rand(0x0100,0x0300)
     <<"h", "e", "x", "_", "2", "=", "r", "a", "n", "d", "(", "0", "x", "0",
       "1", "0", "0", ",", "0", "x", "0", "3", "0", "0", ")">>,
     \* hex_2=rand(0x0001,0x0100)
     <<"h", "e", "x", "_", "2", "=", "r", "a", "n", "d", "(", "0", "x", "0", "0", "0", "1", ",", "0", "x", "0", "1", "0", "0", ")">>,
     \* hex_2=rand(0x0100,0x0001)
     <<"h", "e", "x", "_", "2", "=", "r", "a", "n", "d", "(", "0", "x", "0", "1", "0", "0", ",", "0", "x", "0", "0", "0", "1", ")">>,
     \* i8=rand(0,9223372036854775808)
     <<"i", "8", "=", "r", "a", "n", "d", "(", "0", ",", "9", "2", "2", "3",
       "3", "7", "2", "0", "3", "6", "8", "5", "4", "7", "7", "5", "8", "0",
       "8", ")">>,
     \* u16=rand(1,18446744073709551616)
     <<"u", "1", "6", "=", "r", "a", "n", "d", "(", "1", ",", "1", "8", "4",
       "4", "6", "7", "4", "4", "0", "7", "3", "7", "0", "9", "5", "5", "1",
       "6", "1", "6", ")">>,
     \* i32=rand(18446744073709551616,18446744073709551617)
     <<"i", "3", "2", "=", "r", "a", "n", "d", "(", "1", "8", "4", "4", "6",
       "7", "4", "4", "0", "7", "3", "7", "0", "9", "5", "5", "1", "6", "1",
       "6", ",", "1", "8", "4", "4", "6", "7", "4", "4", "0", "7", "3", "7",
       "0", "9", "5", "5", "1", "6", "1", "7", ")">>,
     \* u8=rand(0,340282366920938463463374607431768211456)
     <<"u", "8", "=", "r", "a", "n", "d", "(", "0", ",", "3", "4", "0", "2",
       "8", "2", "3", "6", "6", "9", "2", "0", "9", "3", "8", "4", "6", "3",
       "4", "6", "3", "3", "7", "4", "6", "0", "7", "4", "3", "1", "7", "6",
       "8", "2", "1", "1", "4", "5", "6", ")">>,
     \* hex_17=rand(0x01,0x02)
     <<"h", "e", "x", "_", "1", "7", "=", "r", "a", "n", "d", "(", "0", "x",
       "0", "1", ",", "0", "x", "0", "2", ")">>,
     \* hex_17=rand(0x0000000000000000000000000000000000,0x0200000000000000000000000000000000)
     <<"h", "e", "x", "_", "1", "7", "=", "r", "a", "n", "d", "(", "0", "x",
       "0", "0", "0", "0", "0", "0", "0", "0", "0", "0", "0", "0", "0", "0",
       "0", "0", "0", "0", "0", "0", "0", "0", "0", "0", "0", "0", "0", "0",
       "0", "0", "0", "0", "0", "0", ",", "0", "x", "0", "2", "0", "0", "0",
       "0", "0", "0", "0", "0", "0", "0", "0", "0", "0", "0", "0", "0", "0",
       "0", "0", "0", "0", "0", "0", "0", "0", "0", "0", "0", "0", "0", "0",
       "0", ")">>
    }

\* render_field_input: the values the control of the field can write.  The
\* control is chosen by the text left of '=' (extract_base_type): a number
\* box writes its number back as decimal, a checkbox true or false, a text
\* box any text
UserInputs(fv) ==
    LET base_before(eq_pos) ==
            IF eq_pos = None THEN fv.field_type
            ELSE SubSeq(fv.field_type, 1, eq_pos[1] - 1)
        inputs_for(base) ==
            IF ~IsOk(base) \/ base.value.tag = "HexDynamic"
            THEN {<<>>, <<"0", "x", "1", "2", "3", "4">>, <<"z", "z">>}
            ELSE IF base.value.tag = "Bool"
            THEN {<<"t", "r", "u", "e">>, <<"f", "a", "l", "s", "e">>}
            ELSE IF base.value.tag \in FloatTags THEN {<<"1">>}
            ELSE {<<"7">>}
    IN inputs_for(parse_base_type(base_before(find(fv.field_type, "="))))

\* I1 of the specification: {a: u16=0x00AA, b: hex_2=0x1122}
MessageI1 ==
    <<MessageField("a", <<"u", "1", "6", "=", "0", "x", "0", "0", "A", "A">>, TRUE),
      MessageField("b", <<"h", "e", "x", "_", "2", "=", "0", "x", "1", "1", "2", "2">>, TRUE)>>

\* the same message with the integer written in decimal
MessageI1Decimal ==
    <<MessageField("a", <<"u", "1", "6", "=", "1", "7", "0">>, TRUE),
      MessageField("b", <<"h", "e", "x", "_", "2", "=", "0", "x", "1", "1", "2", "2">>, TRUE)>>

\* the messages that are assembled: every type string alone, editable or
\* not, the two messages above, the message of
\* test_message_packet_generation (version: u8=1 fixed, data: u32) and the
\* same with a second field that names no type (u33)
FieldMessages ==
    {<<MessageField("f", t, e)>> : t \in TypeStrings, e \in BOOLEAN}
        \cup {MessageI1, MessageI1Decimal,
              <<MessageField("version", <<"u", "8", "=", "1">>, FALSE),
                MessageField("data", <<"u", "3", "2">>, TRUE)>>,
              <<MessageField("version", <<"u", "8", "=", "1">>, FALSE),
                MessageField("data", <<"u", "3", "3">>, TRUE)>>}

\* largest packet index generate_packet is called with
MaxIndex == 9

\* MessageRuntimeState::from_definition
FromDefinition ==
    /\ UNCHANGED <<schedVars, recvVars, replayVars, lockVars, evalVars, svcVars>>
    /\ fPc = "defined"
    /\ \E made \in {from_definition(fields, overflowChecks)} :
          IF made.kind = "panic"
          THEN /\ fPc' = "panicked"
               /\ field_values' = <<>>
          ELSE /\ fPc' = "ready"
               /\ field_values' = made.value
    /\ UNCHANGED <<overflowChecks, fields, gIndex, gTotal, gParts, gPacket>>

\* render_field_input: the user changes the value of a field that allows input
EditField(j, v) ==
    /\ UNCHANGED <<schedVars, recvVars, replayVars, lockVars, evalVars, svcVars>>
    /\ fPc = "ready"
    /\ j \in 1..Len(field_values)
    /\ should_allow_input(field_values[j])
    /\ v \in UserInputs(field_values[j])
    /\ field_values' = [field_values EXCEPT ![j].current_value = v]
    /\ UNCHANGED <<overflowChecks, fields, fPc, gIndex, gTotal, gParts, gPacket>>

\* MessageRuntimeState::generate_packet(packet_index, total_packets); the
\* caller counts the packet index from 0
GeneratePacket ==
    /\ UNCHANGED <<schedVars, recvVars, replayVars, lockVars, evalVars, svcVars>>
    /\ fPc = "ready"
    /\ \E packet_index \in {IF gPacket = <<>> THEN 0 ELSE gIndex + 1} :
          /\ packet_index <= MaxIndex
          /\ gIndex' = packet_index
          /\ \E parts \in parts_of(field_values, packet_index, gTotal,
                                   overflowChecks) :
             \E packet \in {extend_from_slices(parts, <<>>)} :
                /\ gParts' = parts
                /\ gPacket' = Some(packet)
                /\ fPc' = IF packet.kind = "panic" THEN "panicked" ELSE "ready"
    /\ UNCHANGED <<overflowChecks, fields, field_values, gTotal>>

FieldNext ==
    \/ FromDefinition
    \/ \E j \in 1..2 : \E v \in {<<>>, <<"7">>, <<"1">>, <<"z", "z">>,
                                  <<"t", "r", "u", "e">>, <<"f", "a", "l", "s", "e">>,
                                  <<"0", "x", "1", "2", "3", "4">>} :
          EditField(j, v)
    \/ GeneratePacket

\* a message definition, the build's overflow checks and total_packets
\* (None for an unlimited run, else the packet count)
FieldSpecInit ==
    /\ SchedIdle /\ RecvInit /\ ReplayInitWith(<<>>) /\ LockIdle /\ EvalIdle /\ ServiceIdle
    /\ overflowChecks \in BOOLEAN
    /\ fields \in FieldMessages
    /\ field_values = <<>>
    /\ fPc = "defined"
    /\ gIndex = 0
    /\ gTotal \in {None, Some(0), Some(3), Some(10)}
    /\ gParts = <<>>
    /\ gPacket = <<>>

SpecField == FieldSpecInit /\ [][FieldNext]_vars

----------------------------------------------------------------------------
\* DefaultExpr::evaluate as a function of an expression and a data type that
\* need not come from the same type string

\* FieldDataType: the variants, with three sizes of HexDynamic
DataTypes ==
    {[tag |-> t] : t \in SignedTags \cup UnsignedTags \cup FloatTags \cup {"Bool"}}
    \cup {HexDynamic(1), HexDynamic(2), HexDynamic(4)}

\* the expressions that DefaultExpr::parse returns for the type strings
ParsedExprs(overflow_checks) ==
    LET expr_of(r) ==
            IF IsOk(r) /\ r.value.default_expr # None
            THEN {r.value.default_expr[1]} ELSE {}
    IN UNION {expr_of(parse_type_and_default(ts, overflow_checks)) : ts \in TypeStrings}

MaxRow == 2

\* one call of evaluate; total_packets is Some(3)
Evaluate ==
    /\ UNCHANGED <<schedVars, recvVars, replayVars, fieldVars, lockVars, svcVars>>
    /\ eOut = None
    /\ \E r \in evaluate(eExpr[1], eType[1], eRow, Some(3), overflowChecks) :
          eOut' = Some(r)
    /\ UNCHANGED <<eExpr, eType, eRow>>

EvalSpecInit ==
    /\ SchedIdle /\ RecvInit /\ ReplayInitWith(<<>>) /\ LockIdle /\ ServiceIdle
    /\ overflowChecks \in BOOLEAN
    /\ fields = <<>>
    /\ field_values = <<>>
    /\ fPc = "defined"
    /\ gIndex = 0
    /\ gTotal = None
    /\ gParts = <<>>
    /\ gPacket = <<>>
    /\ eExpr \in {Some(e) : e \in ParsedExprs(overflowChecks)}
    /\ eType \in {Some(t) : t \in DataTypes}
    /\ eRow \in 0..MaxRow
    /\ eOut = None

SpecEval == EvalSpecInit /\ [][Evaluate]_vars

----------------------------------------------------------------------------
\* TransferService over several start_sender calls.  Every call resets the
\* shared MessageStatsManager, creates a new state cell and spawns a task
\* that keeps the cell and the statistics; the controller keeps the cell of
\* the last call only.  The tasks run one enabled message without a packet
\* limit.  The statistics are kept as the packets recorded since the reset
\* and (history) the tasks that recorded into them and that finished them.

MaxStarts == 2
MaxSent == 2

\* configure_sender_socket: the results of the call on a socket whose options
\* are given as those that were set (multicast_ttl_v4 is None when it was not)
configure_sender_socket(socket, config) ==
    CASE config.network_type = "Broadcast" ->
            {Ok([socket EXCEPT !.broadcast = TRUE]), Err}
      [] config.network_type = "Multicast" ->
            IF config.family = "V4"
            THEN {Ok([socket EXCEPT !.multicast_ttl_v4 = Some(32)]), Err}
            ELSE {Ok(socket)}
      [] config.network_type = "Unicast" -> {Ok(socket)}

\* TransferService::start_sender (called by DataTransferApp::start_sender,
\* which stores the returned cell)
ServiceStartSender ==
    /\ UNCHANGED <<schedVars, recvVars, replayVars, fieldVars, lockVars, evalVars>>
    /\ starts < MaxStarts
    /\ starts' = starts + 1
    /\ message_stats' = [packets_sent |-> 0, recorded_by |-> {}, finished_by |-> {}]
    /\ tasks' = Append(tasks, [pc |-> "spawned", state |-> "Idle",
                               socket |-> None, sent |-> 0])
    /\ sender_shared_state' = Some(Len(tasks) + 1)
    /\ UNCHANGED network

\* TransferService::stop_transfer on the cell the controller holds
ServiceStopTransfer ==
    /\ UNCHANGED <<schedVars, recvVars, replayVars, fieldVars, lockVars, evalVars>>
    /\ sender_shared_state # None
    /\ tasks[sender_shared_state[1]].state # "Idle"
    /\ tasks' = [tasks EXCEPT ![sender_shared_state[1]].state = "Idle"]
    /\ UNCHANGED <<network, sender_shared_state, message_stats, starts>>

\* the spawned task up to the loop: the cell becomes Running, the sender
\* configuration is built and UdpSocket::bind("0.0.0.0:0") gives the socket,
\* on which no option is set; a failure ends the task with the cell at Error
TaskBegin(k, ok) ==
    /\ UNCHANGED <<schedVars, recvVars, replayVars, fieldVars, lockVars, evalVars>>
    /\ tasks[k].pc = "spawned"
    /\ tasks' = [tasks EXCEPT ![k] =
           IF ok THEN [@ EXCEPT !.pc = "loop", !.state = "Running",
                                !.socket = Some([broadcast |-> FALSE,
                                                 multicast_ttl_v4 |-> None])]
           ELSE [@ EXCEPT !.pc = "done", !.state = "Error"]]
    /\ UNCHANGED <<network, sender_shared_state, message_stats, starts>>

\* one pass of the loop: the task leaves it when its cell is Idle or Error,
\* else it sends the packet of the message on its socket and records the
\* packet, or the error, into the shared statistics
TaskPass(k, sent_ok) ==
    /\ UNCHANGED <<schedVars, recvVars, replayVars, fieldVars, lockVars, evalVars>>
    /\ tasks[k].pc = "loop"
    /\ IF tasks[k].state \in {"Idle", "Error"}
       THEN /\ tasks' = [tasks EXCEPT ![k].pc = "finish"]
            /\ UNCHANGED message_stats
       ELSE /\ tasks[k].sent < MaxSent
            /\ tasks' = [tasks EXCEPT ![k].sent = IF sent_ok THEN @ + 1 ELSE @]
            /\ message_stats' =
                  [message_stats EXCEPT
                      !.packets_sent = IF sent_ok THEN @ + 1 ELSE @,
                      !.recorded_by = @ \cup {k}]
    /\ UNCHANGED <<network, sender_shared_state, starts>>

\* after the loop: Running becomes Idle, and finish_all on the statistics
TaskEnd(k) ==
    /\ UNCHANGED <<schedVars, recvVars, replayVars, fieldVars, lockVars, evalVars>>
    /\ tasks[k].pc = "finish"
    /\ tasks' = [tasks EXCEPT ![k].pc = "done",
                              ![k].state = FinishState(@)]
    /\ message_stats' = [message_stats EXCEPT !.finished_by = @ \cup {k}]
    /\ UNCHANGED <<network, sender_shared_state, starts>>

ServiceSpecInit ==
    /\ SchedIdle /\ RecvInit /\ ReplayInitWith(<<>>) /\ FieldIdle /\ LockIdle
    /\ EvalIdle
    /\ network \in [network_type : {"Unicast", "Broadcast", "Multicast"},
                    family : {"V4", "V6"}]
    /\ tasks = <<>>
    /\ sender_shared_state = None
    /\ message_stats = [packets_sent |-> 0, recorded_by |-> {}, finished_by |-> {}]
    /\ starts = 0

SpecService ==
    /\ ServiceSpecInit
    /\ [][
        \/ ServiceStartSender
        \/ ServiceStopTransfer
        \/ \E k \in 1..Len(tasks) : \E ok \in BOOLEAN : TaskBegin(k, ok)
        \/ \E k \in 1..Len(tasks) : \E sent_ok \in BOOLEAN : TaskPass(k, sent_ok)
        \/ \E k \in 1..Len(tasks) : TaskEnd(k)
      ]_vars

----------------------------------------------------------------------------
\* Properties of the field types and of packet assembly.  gParts holds the
\* to_bytes calls of the last generate_packet, gIndex its packet index.

\* C12: a switch evaluated at packet index i, with p = i + 1, returns the
\* value of the first rule in declaration order whose condition matches
\* (Absolute(k) iff p = k, Range(a, b) iff a <= p <= b, Relative(o) iff
\* total_packets is Some(t) with t > 0 and p = t + o + 1) and the default
\* value iff none matches; u8=switch(100, -2:200, 3:150) with total 10 gives
\* 100, 150, 200, 100 at the indices 0, 2, 8, 9.
C12_SwitchFirstMatch ==
    /\ \A j \in 1..Len(gParts) :
          LET fv == gParts[j].field
              p == gIndex + 1
              holds(c) ==
                  CASE c.kind = "Absolute" -> p = c.pos
                    [] c.kind = "Range" -> c.start <= p /\ p <= c.end
                    [] c.kind = "Relative" ->
                          /\ gTotal # None
                          /\ gTotal[1] > 0
                          /\ p = gTotal[1] + c.offset + 1
              matching(rules) == {r \in 1..Len(rules) : holds(rules[r].condition)}
              least(m) == CHOOSE r \in m : \A q \in m : r <= q
              chosen(e, m) == IF m = {} THEN e.default_value ELSE e.rules[least(m)].value
              value_of(e) == chosen(e, matching(e.rules))
          IN (gParts[j].branch = "expr" /\ fv.default_expr[1].kind = "Switch")
                 => gParts[j].result
                        = parse_field_value_by_type(fv.parsed_type[1],
                                                    value_of(fv.default_expr[1]))
    /\ (/\ gPacket # <<>>
        /\ gTotal = Some(10)
        /\ gIndex \in {0, 2, 8, 9}
        /\ Len(fields) = 1
        /\ fields[1].field_type
               = <<"u", "8", "=", "s", "w", "i", "t", "c", "h", "(", "1", "0", "0",
                   ",", " ", "-", "2", ":", "2", "0", "0", ",", " ", "3", ":",
                   "1", "5", "0", ")">>)
           => gPacket[1] = Ok(<<CASE gIndex = 2 -> 150 [] gIndex = 8 -> 200
                                  [] OTHER -> 100>>)

\* the Relative rule -2 has decided the packet before the last of ten
C12_Witness ==
    /\ gPacket = Some(Ok(<<200>>))
    /\ gTotal = Some(10)
    /\ gIndex = 8
    /\ gParts[1].field.default_expr[1].kind = "Switch"
    /\ gParts[1].field.default_expr[1].rules[1].condition.kind = "Relative"

\* C13: a Loop(items) produced by the parser is evaluated at index k with
\* items[k mod |items|], so the result at k is the result at k + |items|;
\* u8=loop(1,2,3) gives 1, 2, 3, 1, 2, 3 at the indices 0..5.
C13_LoopPeriodic ==
    /\ \A j \in 1..Len(gParts) :
          LET fv == gParts[j].field
              item(items) == items[(gIndex % Len(items)) + 1]
          IN (gParts[j].branch = "expr" /\ fv.default_expr[1].kind = "Loop")
                 => /\ Len(fv.default_expr[1].items) >= 2
                    /\ gParts[j].result
                           = parse_field_value_by_type(fv.parsed_type[1],
                                 item(fv.default_expr[1].items))
                    /\ gParts[j].result
                           = evaluate_loop(fv.default_expr[1].items,
                                 gIndex + Len(fv.default_expr[1].items),
                                 fv.parsed_type[1])
    /\ (/\ gPacket # <<>>
        /\ gIndex \in 0..5
        /\ Len(fields) = 1
        /\ fields[1].field_type
               = <<"u", "8", "=", "l", "o", "o", "p", "(", "1", ",", "2", ",",
                   "3", ")">>)
           => gPacket[1] = Ok(<<(gIndex % 3) + 1>>)

\* the loop of three items is at its fifth packet, back at the second item
C13_Witness ==
    /\ gPacket = Some(Ok(<<2>>))
    /\ gIndex = 4
    /\ gParts[1].branch = "expr"
    /\ gParts[1].field.default_expr[1].kind = "Loop"
    /\ Len(gParts[1].field.default_expr[1].items) = 3

\* C14: every value an accepted rand(min,max) on an integer type evaluates
\* to lies, decoded in that type, in [min, max], also for bounds outside
\* the range of the type.
C14_RandWithinBounds ==
    \A j \in 1..Len(gParts) :
        LET RECURSIVE from_le_bytes(_)
            from_le_bytes(b) ==
                IF b = <<>> THEN 0 ELSE Head(b) + 256 * from_le_bytes(Tail(b))
            decode(ty, b) ==
                IF ty.tag \in SignedTags /\ b[Len(b)] >= 128
                THEN 0 - 1 - from_le_bytes([k \in 1..Len(b) |-> 255 - b[k]])
                ELSE from_le_bytes(b)
            within(e, v) == e.min <= v /\ v <= e.max
            fv == gParts[j].field
        IN (/\ gParts[j].branch = "expr"
            /\ fv.default_expr[1].kind \in {"RandInt", "RandUint"}
            /\ "wide" \notin DOMAIN fv.default_expr[1]
            /\ IsOk(gParts[j].result))
               => within(fv.default_expr[1],
                         decode(fv.parsed_type[1], gParts[j].result.value))

\* C15: to_bytes uses current_value iff it is non-empty after trimming, the
\* field is editable and its type string carries no rand/loop/switch
\* expression; otherwise it evaluates default_expr when there is one, and
\* otherwise returns the all-zero value of the type.
C15_ToBytesPriority ==
    \A j \in 1..Len(gParts) :
        LET fv == gParts[j].field
            user(value) ==
                value # <<>> /\ fv.editable /\ ~has_function_expression(fv)
            expected(by_user) ==
                IF by_user THEN "current"
                ELSE IF fv.default_expr # None THEN "expr"
                ELSE "zero"
        IN /\ gParts[j].branch = expected(user(trim(fv.current_value)))
           /\ gParts[j].branch = "zero"
                  => /\ fv.parsed_type # None
                     /\ gParts[j].result
                            = Ok([k \in 1..Width(fv.parsed_type[1]) |-> 0])

\* C16 as stated: the message {a: u16=0x00AA, b: hex_2=0x1122} assembles to
\* the four bytes AA 00 22 11.
C16_AsStated ==
    (/\ fields = MessageI1
     /\ Len(gParts) >= 1
     /\ gParts[1].field.current_value = <<"0", "x", "0", "0", "A", "A">>)
        => gPacket = Some(Ok(<<170, 0, 34, 17>>))

\* C16: the message {a: u16=170, b: hex_2=0x1122} assembles to the four
\* bytes AA 00 11 22, the integer little-endian and the hex field in the
\* order of its text; with a: u16=0x00AA the assembly fails, an integer
\* being read in decimal only.
C16_LittleEndianIntTextOrderHex ==
    /\ (/\ fields = MessageI1Decimal
        /\ Len(gParts) = 2
        /\ gParts[1].field.current_value = <<"1", "7", "0">>
        /\ gParts[2].field.current_value = <<"0", "x", "1", "1", "2", "2">>)
           => gPacket = Some(Ok(<<170, 0, 17, 34>>))
    /\ (/\ fields = MessageI1
        /\ Len(gParts) >= 1
        /\ gParts[1].field.current_value = <<"0", "x", "0", "0", "A", "A">>)
           => /\ gPacket = Some(Err)
              /\ Len(gParts) = 1

\* the message with the decimal integer has been assembled with the values
\* of its definition
C16_Witness ==
    /\ fields = MessageI1Decimal
    /\ gPacket = Some(Ok(<<170, 0, 17, 34>>))
    /\ gParts[1].field.current_value = <<"1", "7", "0">>
    /\ gParts[2].field.current_value = <<"0", "x", "1", "1", "2", "2">>

\* C17: for a message whose field types all parse, a successful
\* generate_packet returns the fields' bytes in declared order with no
\* padding, width(DataType) bytes per field (1/2/4/8 for numeric and bool,
\* n for hex_n), so the packet is as long as the sum of the declared widths.
C17_DeclaredWidths ==
    LET RECURSIVE concat(_, _)
        concat(parts, k) ==
            IF k > Len(parts) THEN <<>>
            ELSE parts[k].result.value \o concat(parts, k + 1)
        RECURSIVE sum(_, _)
        sum(w, k) == IF k > Len(w) THEN 0 ELSE w[k] + sum(w, k + 1)
        declared_of(fv, base) ==
            IF starts_with(base, <<"h", "e", "x", "_">>)
            THEN from_str_radix(SubSeq(base, 5, Len(base)), 10, FALSE)[1]
            ELSE Width(fv.parsed_type[1])
        base_of(s, eq) == IF eq = None THEN s ELSE trim(SubSeq(s, 1, eq[1] - 1))
        text_base(s) == base_of(s, find(s, "="))
        declared(fv) == declared_of(fv, text_base(trim(fv.field_type)))
    IN (/\ gPacket # <<>>
        /\ IsOk(gPacket[1])
        /\ \A j \in 1..Len(field_values) : field_values[j].parsed_type # None)
           => /\ Len(gParts) = Len(fields)
              /\ gPacket[1].value = concat(gParts, 1)
              /\ \A j \in 1..Len(gParts) :
                    Len(gParts[j].result.value) = declared(gParts[j].field)
              /\ Len(gPacket[1].value)
                     = sum([j \in 1..Len(gParts) |-> declared(gParts[j].field)], 1)

\* C18: the hex width is derived from a literal default only for the
\* unsized form hex (hex=0xFF is Hex(1), hex=0x1234 is Hex(2)); for an
\* explicitly sized type string hex_N, hex_1 included, the type is Hex(N)
\* whatever the literal is.
C18_SizedHexKeepsWidth ==
    \A j \in 1..Len(field_values) :
        LET fv == field_values[j]
            base_of(s, eq) == IF eq = None THEN s ELSE trim(SubSeq(s, 1, eq[1] - 1))
            text_base(s) == base_of(s, find(s, "="))
            sized(base) ==
                starts_with(base, <<"h", "e", "x", "_">>)
                    => fv.parsed_type[1]
                           = HexDynamic(from_str_radix(SubSeq(base, 5, Len(base)),
                                                       10, FALSE)[1])
        IN /\ fv.parsed_type # None => sized(text_base(trim(fv.field_type)))
           /\ fv.field_type = <<"h", "e", "x", "=", "0", "x", "F", "F">>
                  => fv.parsed_type = Some(HexDynamic(1))
           /\ fv.field_type = <<"h", "e", "x", "=", "0", "x", "1", "2", "3", "4">>
                  => fv.parsed_type = Some(HexDynamic(2))

\* C19: parse_type_and_default is total: for every input it returns a type
\* with an optional expression or an error and never panics, also for
\* hex_N=rand(a,b) with hex numerals longer than 16 bytes.
C19_ParseNeverPanics ==
    \* from_definition, which parses the type string of every field, has
    \* not panicked
    ~(fPc = "panicked" /\ gPacket = <<>>)

----------------------------------------------------------------------------
\* The locks of the three loops (the shared TransferState and the
\* statistics, both std::sync::Mutex) and their suspension points.
\*
\* LockProgram(kind) lists, in the order of the source, the steps of a loop
\* that take a lock, leave the block of its guard, or await; `line` is the
\* line of the step in the loop's file, `next` the steps control can reach
\* from it.  A task whose lPc is at an await step is suspended there.

Step(op, on, line, next) == [op |-> op, on |-> on, line |-> line, next |-> next]

LockProgram(kind) ==
    CASE kind = "scheduler" ->
            \* TransferService::run_message_sender
            <<Step("lock", "state", 192, {2}),
              Step("unlock", "state", 200, {3, 12}),
              Step("skip", "due message", 203, {4, 9, 11, 12}),
              Step("await", "send_to", 271, {5, 7}),
              Step("lock", "stats", 280, {6}),
              Step("unlock", "stats", 287, {3}),
              Step("lock", "stats", 308, {8}),
              Step("unlock", "stats", 311, {3}),
              Step("lock", "stats", 319, {10}),
              Step("unlock", "stats", 325, {3}),
              Step("await", "sleep", 333, {1}),
              Step("lock", "state", 337, {13}),
              Step("unlock", "state", 344, {14}),
              Step("lock", "stats", 347, {15}),
              Step("unlock", "stats", 349, {16}),
              Step("end", "return", 353, {})>>
      [] kind = "replayer" ->
            \* run_sender_with_gui_stats, the PCAP branch
            <<Step("skip", "read_packet", 98, {2, 4, 10, 14}),
              Step("lock", "state", 103, {3}),
              Step("unlock", "state", 112, {4, 10}),
              Step("await", "sleep_until", 123, {5}),
              Step("await", "send_to", 128, {6, 8}),
              Step("lock", "stats", 133, {7}),
              Step("unlock", "stats", 141, {1}),
              Step("lock", "stats", 150, {9}),
              Step("unlock", "stats", 153, {1}),
              Step("lock", "stats", 244, {11}),
              Step("unlock", "stats", 246, {12}),
              Step("lock", "state", 247, {13}),
              Step("unlock", "state", 249, {14}),
              Step("end", "return", 251, {})>>
      [] kind = "capture" ->
            \* run_receiver_with_gui_stats
            <<Step("await", "recv_from or sleep", 73, {2, 4, 6, 8, 10}),
              Step("lock", "stats", 89, {3}),
              Step("unlock", "stats", 91, {1}),
              Step("lock", "stats", 94, {5}),
              Step("unlock", "stats", 96, {1}),
              Step("lock", "stats", 103, {7}),
              Step("unlock", "stats", 105, {1}),
              Step("lock", "stats", 113, {9}),
              Step("unlock", "stats", 115, {1}),
              Step("lock", "state", 121, {11}),
              Step("unlock", "state", 125, {1, 12}),
              Step("skip", "finalize", 131, {13, 17}),
              Step("lock", "stats", 134, {14}),
              Step("unlock", "stats", 136, {15}),
              Step("lock", "state", 139, {16}),
              Step("unlock", "state", 141, {17}),
              Step("end", "return", 144, {})>>

\* a guard that is not dropped at the end of its block
ReleaseKept(h, l) == h

\* the guard of lock l goes out of scope
Release(h, l) == [h EXCEPT ![l] = "free"]

\* the task runs its next step: Mutex::lock waits until the lock is free,
\* an await ends when its future is ready
TaskStep ==
    /\ UNCHANGED <<schedVars, recvVars, replayVars, fieldVars, evalVars, svcVars>>
    /\ loopKind # "none"
    /\ \E step \in {LockProgram(loopKind)[lPc]} :
          /\ step.op # "end"
          /\ step.op = "lock" => holder[step.on] = "free"
          /\ holder' = CASE step.op = "lock" -> [holder EXCEPT ![step.on] = "task"]
                         [] step.op = "unlock" -> Release(holder, step.on)
                         [] OTHER -> holder
          /\ lPc' \in step.next
    /\ UNCHANGED loopKind

\* the UI thread takes a lock to read or change what it guards
UiLock(l) ==
    /\ UNCHANGED <<schedVars, recvVars, replayVars, fieldVars, evalVars, svcVars>>
    /\ loopKind # "none"
    /\ holder[l] = "free"
    /\ holder' = [holder EXCEPT ![l] = "ui"]
    /\ UNCHANGED <<loopKind, lPc>>

\* the UI thread's guard goes out of scope
UiUnlock(l) ==
    /\ UNCHANGED <<schedVars, recvVars, replayVars, fieldVars, evalVars, svcVars>>
    /\ holder[l] = "ui"
    /\ holder' = Release(holder, l)
    /\ UNCHANGED <<loopKind, lPc>>

LockNext ==
    \/ TaskStep
    \/ \E l \in {"state", "stats"} : UiLock(l)
    \/ \E l \in {"state", "stats"} : UiUnlock(l)

\* one of the three loops has been spawned and is at its first step
LockSpecInit ==
    /\ SchedIdle /\ RecvInit /\ ReplayInitWith(<<>>) /\ FieldIdle /\ EvalIdle /\ ServiceIdle
    /\ loopKind \in {"scheduler", "replayer", "capture"}
    /\ lPc = 1
    /\ holder = [l \in {"state", "stats"} |-> "free"]

SpecLocks == LockSpecInit /\ [][LockNext]_vars

\* C20: in the scheduler, the replayer and the capture loop no lock is held
\* across a suspension point: whenever the task is suspended in send_to,
\* recv_from or a timed sleep it holds neither the state lock nor the
\* statistics lock, so the UI can take either lock as soon as the UI itself
\* has released it.
C20_NoLockAcrossAwait ==
    (loopKind # "none" /\ LockProgram(loopKind)[lPc].op = "await")
        => \A l \in {"state", "stats"} :
              /\ holder[l] # "task"
              /\ holder[l] = "ui" \/ ENABLED UiLock(l)

\* the scheduler is suspended in send_to while the UI holds the statistics
\* lock
C20_Witness ==
    /\ loopKind = "scheduler"
    /\ LockProgram(loopKind)[lPc].on = "send_to"
    /\ holder["stats"] = "ui"
    /\ holder["state"] = "free"

----------------------------------------------------------------------------
\* Claims about the capture loop, checked under SpecRecv

\* C21: in the capture loop every receive error, record-construction error and
\* writer error adds exactly one to the error counter and the loop goes on; the
\* packet and byte counters count exactly the datagrams that were written; and
\* writer.finalize() is called once, after the loop and before Completed.
C21_CaptureCounts ==
    /\ [](/\ rStats.errors = rSeen.failed
          /\ rStats.packets_processed = rSeen.written
          /\ rStats.bytes_processed = rSeen.bytes
          /\ rPc \in {"none", "setup", "select", "finalize"} => rFinalized = 0
          /\ rPc \in {"finish", "done"} => rFinalized = 1
          /\ rState = "Completed" => rPc = "done" /\ rFinalized = 1)
    /\ [][/\ rSeen'.failed # rSeen.failed =>
                /\ rStats'.errors = rStats.errors + 1
                /\ rStats'.packets_processed = rStats.packets_processed
                /\ rStats'.bytes_processed = rStats.bytes_processed
                /\ rPc' = "select"
          /\ rStats'.packets_processed # rStats.packets_processed =>
                /\ rSeen'.written = rSeen.written + 1
                /\ rStats'.bytes_processed - rStats.bytes_processed
                      = rSeen'.bytes - rSeen.bytes
          /\ rFinalized' # rFinalized => rPc = "finalize" /\ rFinalized = 0]_vars

C21_Witness ==
    /\ rState = "Completed"
    /\ rFinalized = 1
    /\ rSeen.failed = 1
    /\ rSeen.written = 2
    /\ rStats.bytes_processed = 8

----------------------------------------------------------------------------
\* Claims about the message scheduler, checked under Spec

\* the ticks in which message i has been emitted, from the history
EmittedTicks(i) ==
    {attempts[i][k].tick : k \in {n \in 1..Len(attempts[i]) : attempts[i][n].result = "sent"}}

\* C22: within one tick the due messages are emitted in the order of the
\* configured list with the disabled messages removed, and no message is
\* emitted twice in one tick: when message i is emitted in a tick, neither it
\* nor any message after it in that order has been emitted in the same tick.
C22_DeclarationOrder ==
    /\ [](pc \in {"poll", "msg", "send"} =>
             runtime_messages = SelectSeq(messages, LAMBDA m : m.enabled))
    /\ [][\A i \in 1..Len(attempts) :
             (/\ Len(attempts') = Len(attempts)
              /\ Len(attempts'[i]) = Len(attempts[i]) + 1
              /\ attempts'[i][Len(attempts'[i])].result = "sent")
             => /\ attempts'[i][Len(attempts'[i])].tick = ticks
                /\ \A j \in i..Len(attempts) : ticks \notin EmittedTicks(j)
                /\ \A j \in 1..(i - 1) : Due(j)' => ticks \in EmittedTicks(j)
                                                     \/ \E k \in 1..Len(attempts[j]) : attempts[j][k].tick = ticks]_vars

C22_Witness ==
    /\ pc = "msg"
    /\ Len(runtime_messages) = 2
    /\ runtime_messages[1] # runtime_messages[2]
    /\ ticks >= 2
    /\ ticks \in EmittedTicks(1)
    /\ ticks \in EmittedTicks(2)

\* the successful emissions of message i, in order
Emissions(i) == SelectSeq(attempts[i], LAMBDA a : a.result = "sent")

\* two consecutive emissions of a message are at least its interval apart,
\* measured on the tick-start timestamps
IntervalKept(i) ==
    \A k \in 1..(Len(Emissions(i)) - 1) :
        Emissions(i)[k + 1].at - Emissions(i)[k].at >= runtime_messages[i].interval

\* C23 as stated: consecutive emissions of a message are at least interval_ms
\* apart and the first emission of every message is on the first tick.
C23_AsStated ==
    \A i \in DOMAIN attempts :
        /\ IntervalKept(i)
        /\ Len(Emissions(i)) > 0 => Emissions(i)[1].tick = 0

\* C23: consecutive emissions of a message are at least interval_ms apart on
\* the tick-start timestamps; the first attempt of every enabled message is
\* made on the first tick, and the first emission is on the first tick
\* exactly when that attempt succeeds.
C23_FirstAttemptOnFirstTick ==
    \A i \in DOMAIN attempts :
        /\ IntervalKept(i)
        /\ ticks >= 1 => Len(attempts[i]) > 0
        /\ Len(attempts[i]) > 0 => attempts[i][1].tick = 0
        /\ Len(Emissions(i)) > 0 =>
              (Emissions(i)[1].tick = 0 <=> attempts[i][1].result = "sent")

\* a message emitted twice after an attempt of the first tick that failed
C23_Witness ==
    \E i \in DOMAIN attempts :
        /\ Len(Emissions(i)) = 2
        /\ attempts[i][1].result # "sent"
        /\ attempts[i][1].tick = 0
        /\ runtime_messages[i].interval = 20

----------------------------------------------------------------------------
\* Claims about packet assembly, checked under SpecField

\* C24: when a field of a message cannot be turned into bytes, because its
\* type string did not parse or because its value or expression fails to
\* evaluate, generate_packet returns an error: a packet that generate_packet
\* returned holds the bytes of every field, none of them of an unparsed type.
C24_NoFieldMissing ==
    (gPacket # None /\ IsOk(gPacket[1])) =>
        \A j \in 1..Len(gParts) :
            /\ gParts[j].field.parsed_type # None
            /\ IsOk(gParts[j].result)

----------------------------------------------------------------------------
\* Claims about DefaultExpr::evaluate, checked under SpecEval

\* the data types of the family a Rand variant is made for
RandFamily(expr) ==
    CASE expr.kind = "RandInt" -> {t \in DataTypes : t.tag \in SignedTags}
      [] expr.kind = "RandUint" -> {t \in DataTypes : t.tag \in UnsignedTags}
      [] expr.kind = "RandFloat" -> {t \in DataTypes : t.tag \in FloatTags}
      [] expr.kind = "RandBool" -> {t \in DataTypes : t.tag = "Bool"}
      [] expr.kind = "RandHex" -> {HexDynamic(expr.byte_size)}
      [] OTHER -> DataTypes

\* C25: evaluate returns a ValidationError when a Rand variant is evaluated
\* against a data type of another family (for RandHex also a hex type of
\* another size), and the bytes it returns are as many as the width of the
\* data type.
C25_FamilyChecked ==
    eOut # None =>
        /\ eType[1] \notin RandFamily(eExpr[1]) => eOut[1] = Err
        /\ IsOk(eOut[1]) => Len(eOut[1].value) = Width(eType[1])

----------------------------------------------------------------------------
\* Claims about random hex ranges, checked under SpecField

\* C26: for a hex_n type below 16 bytes rand(min,max) is accepted iff both
\* numerals, read as hexadecimal numbers, fit n bytes and min <= max, and a
\* generated value, read as the hexadecimal number its bytes form in wire
\* order, lies between the two numerals.  Stated for the hex_2 ranges of four
\* digits, which always fit: hex_2=rand(0x0001,0x0100) is accepted,
\* hex_2=rand(0x0100,0x0001) is rejected.
C26_HexRangeAsNumbers ==
    \A j \in 1..Len(gParts) :
        LET ts == gParts[j].field.field_type
            number(digits) == from_str_radix(digits, 16, FALSE)[1]
            in_range(lo, wire, hi) == lo <= wire /\ wire <= hi
            accepted_iff(lo, hi) ==
                /\ gParts[j].field.parsed_type # None <=> lo <= hi
                /\ (gParts[j].branch = "expr" /\ IsOk(gParts[j].result)) =>
                      in_range(lo,
                               gParts[j].result.value[1] * 256
                                   + gParts[j].result.value[2],
                               hi)
        IN (/\ Len(ts) = 25
            /\ starts_with(ts, <<"h", "e", "x", "_", "2", "=", "r", "a", "n", "d",
                                 "(", "0", "x">>))
           => accepted_iff(number(SubSeq(ts, 14, 17)), number(SubSeq(ts, 21, 24)))

----------------------------------------------------------------------------
\* Claims about TransferService, checked under SpecService

\* C27: the socket the message scheduler sends on carries the options that
\* UdpSocketFactory::create_sender sets for the configured network type:
\* broadcast enabled in Broadcast mode, a multicast TTL of 32 in Multicast
\* mode.
C27_SocketConfigured ==
    \A k \in 1..Len(tasks) :
        tasks[k].socket # None =>
            Ok(tasks[k].socket[1]) \in
                configure_sender_socket([broadcast |-> FALSE,
                                         multicast_ttl_v4 |-> None], network)

\* C29: at most one task is in the scheduler loop with a Running cell, and
\* since the last reset of the statistics by start_sender only the task of
\* that call has recorded into them or finished them.
C29_OneTaskAtATime ==
    /\ Cardinality({k \in 1..Len(tasks) :
                       tasks[k].pc = "loop" /\ tasks[k].state = "Running"}) <= 1
    /\ \A k \in message_stats.recorded_by \cup message_stats.finished_by :
           k = Len(tasks)

----------------------------------------------------------------------------
\* Claims about the per-message statistics, checked under Spec

\* C28: at every point of a run, and also when two messages carry the same
\* name, the statistics entry of each message has packets_sent equal to the
\* number of packets emitted for that message and bytes_sent equal to the sum
\* of their lengths, and the totals of the global summary (the sums over the
\* entries) are the number and the bytes of all packets emitted.
C28_StatsPerMessage ==
    LET RECURSIVE total(_, _)
        total(S, field) ==
            IF S = {} THEN 0
            ELSE LET n == CHOOSE x \in S : TRUE
                 IN IF field = "packets" THEN stats[n].packets_sent + total(S \ {n}, field)
                    ELSE stats[n].bytes_sent + total(S \ {n}, field)
        lens(i) == [k \in 1..Len(Emissions(i)) |-> runtime_messages[i].len]
    IN /\ \A i \in DOMAIN attempts :
             /\ StatOf(stats, runtime_messages[i].name).packets_sent
                    = Len(Emissions(i))
             /\ StatOf(stats, runtime_messages[i].name).bytes_sent
                    = SumSeq(lens(i))
       /\ total(DOMAIN stats, "packets")
              = SumSeq([i \in DOMAIN attempts |-> Len(Emissions(i))])
       /\ total(DOMAIN stats, "bytes")
              = SumSeq([i \in DOMAIN attempts |-> SumSeq(lens(i))])

----------------------------------------------------------------------------
\* Claims about panics during assembly, checked under SpecField

\* C30: DefaultExpr::evaluate does not panic for an expression that
\* parse_type_and_default accepted, rand(min,max) on the integer types with
\* bounds beyond 64 bits included: generate_packet always returns, with the
\* bytes or with an error.
C30_EvaluateNeverPanics ==
    gPacket # None => gPacket[1] # Panic
====
